---- MODULE Spec2Model ----
(***************************************************************************)
(* A model of loomstr: the template scanner (parseTemplate), the slot body *)
(* parser (parseSlotBody), policy resolution (resolvePolicy), the          *)
(* evaluation engine (CompiledTemplate.evaluate) and the operations built  *)
(* on them (render, toParts, toPartsRaw, tryRender, formatTo, bind,        *)
(* concat).                                                                *)
(*                                                                         *)
(* A JavaScript string is a sequence of characters, each character a       *)
(* one-element TLA+ string; the control characters an escape decodes to    *)
(* are the tokens "LF", "CR", "TAB", "BS", "FF", "VT" and "NUL".           *)
(***************************************************************************)
EXTENDS Integers, Sequences, FiniteSets, TLC

VARIABLES
  source,          \* CompiledTemplate.source; <<>> before the first compile
  chunks,          \* CompiledTemplate.chunks
  slots,           \* CompiledTemplate.slots
  compiled,        \* TRUE once compile has returned a template
  frozen,          \* which of the template's objects Object.freeze was applied to
  bound,           \* the wrapper returned by bind: [present, bound, defaultPolicy]
  call             \* the last call on the template: inputs, outcome, call log

vars == <<source, chunks, slots, compiled, frozen, bound, call>>

(***************************************************************************)
(* Characters                                                              *)
(***************************************************************************)

\* The sequence f[1], ..., f[n] as a tuple.
Tuple(f) == SubSeq(f, 1, Len(f))

\* The characters of a TLA+ string, one per element.
Chars(s) == Tuple([i \in 1..Len(s) |-> SubSeq(s, i, i)])

\* const x = value; followed by the statements rest(x) that read it.
Let(v, rest(_)) == rest(v)

Range(f) == {f[i] : i \in DOMAIN f}

LowerCase == Chars("abcdefghijklmnopqrstuvwxyz")
UpperCase == Chars("ABCDEFGHIJKLMNOPQRSTUVWXYZ")
Digits == Chars("0123456789")

IndexOf(seq, c) == CHOOSE i \in 1..Len(seq) : seq[i] = c

\* String.prototype.charCodeAt for one character.
charCodeAt(c) ==
  IF c \in Range(LowerCase) THEN 96 + IndexOf(LowerCase, c)
  ELSE IF c \in Range(UpperCase) THEN 64 + IndexOf(UpperCase, c)
  ELSE IF c \in Range(Digits) THEN 47 + IndexOf(Digits, c)
  ELSE CASE c = "NUL" -> 0
         [] c = "BS" -> 8
         [] c = "TAB" -> 9
         [] c = "LF" -> 10
         [] c = "VT" -> 11
         [] c = "FF" -> 12
         [] c = "CR" -> 13
         [] c = " " -> 32
         [] c = "!" -> 33
         [] c = "\"" -> 34
         [] c = "#" -> 35
         [] c = "$" -> 36
         [] c = "&" -> 38
         [] c = "'" -> 39
         [] c = "," -> 44
         [] c = "-" -> 45
         [] c = "." -> 46
         [] c = "<" -> 60
         [] c = "=" -> 61
         [] c = ">" -> 62
         [] c = "[" -> 91
         [] c = "\\" -> 92
         [] c = "]" -> 93
         [] c = "_" -> 95
         [] c = "GRAVE" -> 96
         [] c = "{" -> 123
         [] c = "|" -> 124
         [] c = "}" -> 125

isIdentStart(c) ==
  \/ (c >= 65 /\ c <= 90)
  \/ (c >= 97 /\ c <= 122)
  \/ c = 95

isIdent(c) == isIdentStart(c) \/ (c >= 48 /\ c <= 57)

\* s[i] for a 0-based index i, as JavaScript reads it.
At(s, i) == s[i + 1]

\* s.slice(from, to) for 0 <= from, with to clamped to the length.
Slice(s, from, to) ==
  IF from >= to THEN <<>>
  ELSE SubSeq(s, from + 1, IF to > Len(s) THEN Len(s) ELSE to)

\* The characters String.prototype.trim removes (of this model's alphabet).
isTrimSpace(c) == c \in {" ", "TAB", "LF", "VT", "FF", "CR"}

RECURSIVE trimStart(_)
trimStart(s) ==
  IF s # <<>> /\ isTrimSpace(Head(s)) THEN trimStart(Tail(s)) ELSE s

RECURSIVE trimEnd(_)
trimEnd(s) ==
  IF s # <<>> /\ isTrimSpace(s[Len(s)]) THEN trimEnd(SubSeq(s, 1, Len(s) - 1)) ELSE s

trim(s) == trimEnd(trimStart(s))

(***************************************************************************)
(* parser.ts: escapes                                                      *)
(***************************************************************************)

\* A decoding that knows no escape: every character stands for itself.
decodeTextEscapeLiteral(next) == next

decodeTextEscape(next) ==
  CASE next = "n" -> "LF"
    [] next = "r" -> "CR"
    [] next = "t" -> "TAB"
    [] next = "b" -> "BS"
    [] next = "f" -> "FF"
    [] next = "v" -> "VT"
    [] next = "0" -> "NUL"
    [] OTHER -> next

decodeArgEscape(next) ==
  CASE next = "," -> ","
    [] next = "#" -> "#"
    [] OTHER -> decodeTextEscape(next)

RECURSIVE decodeArgLoop(_, _, _)
decodeArgLoop(s, i, out) ==
  IF i >= Len(s) THEN out
  ELSE IF At(s, i) # "\\" \/ i + 1 >= Len(s)
    THEN decodeArgLoop(s, i + 1, Append(out, At(s, i)))
    ELSE decodeArgLoop(s, i + 2, Append(out, decodeArgEscape(At(s, i + 1))))

decodeArgString(s) ==
  IF "\\" \notin Range(s) THEN s ELSE decodeArgLoop(s, 0, <<>>)

\* The decimal digits of an integer, as String(n) writes them.
RECURSIVE NatToChars(_)
NatToChars(n) ==
  IF n < 10 THEN <<Digits[n + 1]>>
  ELSE Append(NatToChars(n \div 10), Digits[(n % 10) + 1])

NumToChars(n) == IF n < 0 THEN <<"-">> \o NatToChars(0 - n) ELSE NatToChars(n)

(***************************************************************************)
(* Errors and objects                                                      *)
(***************************************************************************)

\* new Error(message): the fixed text of the message and the name it quotes.
Error(message, subject) == [message |-> message, subject |-> subject]

\* A freeze that leaves the object writable.
noFreeze(o) == {}

\* const freeze = o => Object.freeze(o): the objects frozen by freeze(o). A
\* write to a frozen object changes nothing.
freeze(o) == {o}

EMPTY_ARGS == <<>>

(***************************************************************************)
(* parser.ts: parseSlotBody                                                *)
(***************************************************************************)

\* A scan that steps over no space at all.
skipSpacesNone(body, i) == i

\* while (i < n && body.charCodeAt(i) <= 32) i++
RECURSIVE skipSpaces(_, _)
skipSpaces(body, i) ==
  IF i < Len(body) /\ charCodeAt(At(body, i)) <= 32
    THEN skipSpaces(body, i + 1) ELSE i

\* while (i < n && isIdent(body.charCodeAt(i))) i++
RECURSIVE skipIdent(_, _)
skipIdent(body, i) ==
  IF i < Len(body) /\ isIdent(charCodeAt(At(body, i)))
    THEN skipIdent(body, i + 1) ELSE i

\* The closure pushArg, on the scanner state st of one argument list.
pushArg(st) ==
  LET processed == decodeArgString(st.cur)
      trimmed == decodeArgString(trim(st.cur))
      result == IF st.quotedThisArg THEN decodeArgString(st.cur)
                ELSE IF Len(processed) # Len(trimmed) THEN processed ELSE trimmed
  IN [st EXCEPT !.out = Append(@, result), !.cur = <<>>, !.quotedThisArg = FALSE]

\* The argument loop: while (i < n) { ... }. inQuote is "" for null.
RECURSIVE scanArgs(_, _)
scanArgs(body, st) ==
  IF st.i >= Len(body) THEN st
  ELSE LET ch == At(body, st.i) IN
    IF st.escaped
      THEN scanArgs(body, [st EXCEPT !.cur = Append(@, decodeArgEscape(ch)),
                                     !.escaped = FALSE, !.i = @ + 1])
    ELSE IF ch = "\\"
      THEN scanArgs(body, [st EXCEPT !.escaped = TRUE, !.i = @ + 1])
    ELSE IF st.inQuote # ""
      THEN IF ch = st.inQuote
             THEN scanArgs(body, [st EXCEPT !.inQuote = "", !.i = @ + 1])
             ELSE scanArgs(body, [st EXCEPT !.cur = Append(@, ch), !.i = @ + 1])
    ELSE IF ch = "\"" \/ ch = "'"
      THEN scanArgs(body, [st EXCEPT !.inQuote = ch, !.quotedThisArg = TRUE,
                                     !.i = @ + 1])
    ELSE IF ch = ","
      THEN scanArgs(body, [pushArg(st) EXCEPT !.i = skipSpaces(body, st.i + 1)])
    ELSE IF ch = "|"
      THEN [pushArg(st) EXCEPT !.argPushed = TRUE]
    ELSE scanArgs(body, [st EXCEPT !.cur = Append(@, ch), !.i = @ + 1])

\* The block after '#': the arguments of one filter and where the scan stopped.
parseArgs(body, i) ==
  Let(scanArgs(body, [i |-> skipSpaces(body, i), out |-> <<>>, cur |-> <<>>,
                       quotedThisArg |-> FALSE, escaped |-> FALSE,
                       inQuote |-> "", argPushed |-> FALSE]),
      LAMBDA st :
        Let(IF ~st.argPushed THEN pushArg(st) ELSE st,
            LAMBDA fin :
              [i |-> fin.i,
               args |-> IF Len(fin.out) # 0 THEN fin.out ELSE EMPTY_ARGS]))

\* zero or more |filter[#args]
RECURSIVE parseFilters(_, _, _)
parseFilters(body, i, filters) ==
  IF i < Len(body) /\ At(body, i) = "|" THEN
    LET fs == skipSpaces(body, i + 1) IN
    IF fs >= Len(body) \/ ~isIdentStart(charCodeAt(At(body, fs)))
      THEN [ok |-> FALSE,
            error |-> Error("Invalid slot: missing/invalid filter in", body)]
      ELSE
        LET fe == skipIdent(body, fs + 1)
            filterName == Slice(body, fs, fe)
            j == skipSpaces(body, fe)
            hasArgs == j < Len(body) /\ At(body, j) = "#"
        IN Let(IF hasArgs THEN parseArgs(body, j + 1)
               ELSE [i |-> j, args |-> EMPTY_ARGS],
               LAMBDA pa :
                 parseFilters(body, skipSpaces(body, pa.i),
                              Append(filters, [args |-> pa.args, name |-> filterName])))
  ELSE [i |-> i, filters |-> filters, ok |-> TRUE]

\* A parseSlotBody whose descriptor takes its args from the last filter of the
\* chain: args: chain[chain.length - 1].args.
parseSlotBodyLastArgs(body) ==
  LET ns == skipSpaces(body, 0) IN
  IF ns >= Len(body) \/ ~isIdentStart(charCodeAt(At(body, ns)))
    THEN [ok |-> FALSE, error |-> Error("Invalid slot: missing/invalid name in", body)]
  ELSE
    LET ne == skipIdent(body, ns + 1)
        name == Slice(body, ns, ne)
    IN
    Let(parseFilters(body, skipSpaces(body, ne), <<>>), LAMBDA pf :
    IF ~pf.ok THEN pf
    ELSE IF skipSpaces(body, pf.i) # Len(body)
      THEN [ok |-> FALSE,
            error |-> Error("Invalid slot: unexpected trailing content in", body)]
    ELSE IF Len(pf.filters) = 0
      THEN [ok |-> TRUE,
            slot |-> [args |-> EMPTY_ARGS, filters |-> <<>>, name |-> name,
                      filter |-> <<>>]]
    ELSE [ok |-> TRUE,
          slot |-> [args |-> pf.filters[Len(pf.filters)].args, filters |-> pf.filters,
                    name |-> name, filter |-> pf.filters[1].name]])

\* A slot descriptor; filter = <<>> and filters = <<>> stand for undefined (no
\* identifier is empty, and a chain that exists holds at least one filter).
parseSlotBody(body) ==
  LET ns == skipSpaces(body, 0) IN
  IF ns >= Len(body) \/ ~isIdentStart(charCodeAt(At(body, ns)))
    THEN [ok |-> FALSE, error |-> Error("Invalid slot: missing/invalid name in", body)]
  ELSE
    LET ne == skipIdent(body, ns + 1)
        name == Slice(body, ns, ne)
    IN
    Let(parseFilters(body, skipSpaces(body, ne), <<>>), LAMBDA pf :
    IF ~pf.ok THEN pf
    ELSE IF Len(pf.filters) = 0 /\ pf.i < Len(body) /\ At(body, pf.i) = "#"
      THEN [ok |-> FALSE,
            error |-> Error("Invalid slot: args provided without filter in", body)]
    ELSE IF skipSpaces(body, pf.i) # Len(body)
      THEN [ok |-> FALSE,
            error |-> Error("Invalid slot: unexpected trailing content in", body)]
    ELSE IF Len(pf.filters) = 0
      THEN [ok |-> TRUE,
            slot |-> [args |-> EMPTY_ARGS, filters |-> <<>>, name |-> name,
                      filter |-> <<>>]]
    ELSE [ok |-> TRUE,
          slot |-> [args |-> pf.filters[1].args, filters |-> pf.filters,
                    name |-> name, filter |-> pf.filters[1].name]])

(***************************************************************************)
(* parser.ts: parseTemplate                                                *)
(***************************************************************************)

\* An inner loop that does not step over an escaped character.
RECURSIVE findCloseUnescaped(_, _)
findCloseUnescaped(src, i) ==
  IF i >= Len(src) THEN [i |-> i, nested |-> FALSE]
  ELSE LET c == At(src, i) IN
    IF c = "{" THEN [i |-> i, nested |-> TRUE]
    ELSE IF c = "}" THEN [i |-> i, nested |-> FALSE]
    ELSE findCloseUnescaped(src, i + 1)

\* The inner loop that looks for the '}' of a slot opened before index i:
\* the index it stops at, or "nested" with the index of the second '{'.
RECURSIVE findClose(_, _)
findClose(src, i) ==
  IF i >= Len(src) THEN [i |-> i, nested |-> FALSE]
  ELSE LET c == At(src, i) IN
    IF c = "\\" THEN findClose(src, i + 2)
    ELSE IF c = "{" THEN [i |-> i, nested |-> TRUE]
    ELSE IF c = "}" THEN [i |-> i, nested |-> FALSE]
    ELSE findClose(src, i + 1)

\* The main loop, from index i with text buffer buf.
RECURSIVE parseLoop(_, _, _, _, _)
parseLoop(src, i, buf, cs, ss) ==
  IF i >= Len(src)
    THEN [chunks |-> IF buf # <<>> THEN Append(cs, buf) ELSE cs,
          slots |-> ss, ok |-> TRUE]
  ELSE LET ch == At(src, i) IN
    IF ch = "\\" THEN
      IF i + 1 < Len(src)
        THEN parseLoop(src, i + 2, Append(buf, decodeTextEscape(At(src, i + 1))), cs, ss)
        ELSE parseLoop(src, i + 1, Append(buf, ch), cs, ss)
    ELSE IF ch = "{" THEN
      LET flushed == IF buf # <<>> THEN Append(cs, buf) ELSE cs
          start == i + 1
      IN
      Let(findClose(src, start), LAMBDA fc :
      IF fc.nested
        THEN [ok |-> FALSE, error |-> Error("Invalid template: nested '{' at", NumToChars(fc.i))]
      ELSE IF fc.i >= Len(src) \/ At(src, fc.i) # "}"
        THEN [ok |-> FALSE,
              error |-> Error("Invalid template: unmatched '{' at index", NumToChars(start - 1))]
      ELSE
        Let(parseSlotBody(Slice(src, start, fc.i)), LAMBDA sb :
        IF ~sb.ok THEN sb
        ELSE parseLoop(src, fc.i + 1, <<>>, flushed, Append(ss, sb.slot))))
    ELSE parseLoop(src, i + 1, Append(buf, ch), cs, ss)

parseTemplate(src) == parseLoop(src, 0, <<>>, <<>>, <<>>)

(***************************************************************************)
(* JavaScript values                                                       *)
(***************************************************************************)

Undefined == [k |-> "undefined"]
Null == [k |-> "null"]
Str(s) == [s |-> s, k |-> "string"]
Num(n) == [n |-> n, k |-> "number"]
Bool(b) == [k |-> "boolean", b |-> b]
Arr(items) == [k |-> "array", items |-> items]
\* Object(v) for a v that is not an object: a new object holding v ({} when v
\* is undefined or null).
Obj(v) == [k |-> "object", of |-> v]
\* An object made by an object literal: its own properties, key -> value.
Rec(props) == [k |-> "record", props |-> props]

RECURSIVE joinChars(_, _)
joinChars(strs, sep) ==
  IF Len(strs) = 0 THEN <<>>
  ELSE IF Len(strs) = 1 THEN strs[1]
  ELSE strs[1] \o sep \o joinChars(Tail(strs), sep)

\* String(v). An array is its elements joined by ",", null and undefined
\* elements giving the empty string (Array.prototype.join).
RECURSIVE JsString(_)
JsString(v) ==
  CASE v.k = "undefined" -> Chars("undefined")
    [] v.k = "null" -> Chars("null")
    [] v.k = "string" -> v.s
    [] v.k = "number" -> NumToChars(v.n)
    [] v.k = "boolean" -> IF v.b THEN Chars("true") ELSE Chars("false")
    [] v.k = "object" ->
         IF v.of.k \in {"undefined", "null"} THEN Chars("[object Object]")
         ELSE JsString(v.of)
    [] v.k = "record" -> Chars("[object Object]")
    [] v.k = "array" ->
         joinChars([i \in 1..Len(v.items) |->
                      IF v.items[i].k \in {"undefined", "null"} THEN <<>>
                      ELSE JsString(v.items[i])], <<",">>)

toUpperCase(s) ==
  Tuple([i \in 1..Len(s) |->
           IF s[i] \in Range(LowerCase) THEN UpperCase[IndexOf(LowerCase, s[i])]
           ELSE s[i]])

toLowerCase(s) ==
  Tuple([i \in 1..Len(s) |->
           IF s[i] \in Range(UpperCase) THEN LowerCase[IndexOf(UpperCase, s[i])]
           ELSE s[i]])

RECURSIVE DigitsToNat(_, _)
DigitsToNat(ds, acc) ==
  IF ds = <<>> THEN acc
  ELSE DigitsToNat(Tail(ds), acc * 10 + (IndexOf(Digits, Head(ds)) - 1))

\* Number(s) for a string argument: the empty or blank string is 0, an optionally
\* signed run of decimal digits is that integer, anything else is NaN. (Fractions,
\* exponents, hex and Infinity are outside the arguments this model writes.)
JsNumber(s) ==
  LET t == trim(s)
      signed == t # <<>> /\ Head(t) \in {"-", "+"}
      ds == IF signed THEN Tail(t) ELSE t
  IN IF t = <<>> THEN [n |-> 0, nan |-> FALSE]
     ELSE IF ds # <<>> /\ \A i \in 1..Len(ds) : ds[i] \in Range(Digits)
       THEN [n |-> IF signed /\ Head(t) = "-" THEN 0 - DigitsToNat(ds, 0)
                   ELSE DigitsToNat(ds, 0),
             nan |-> FALSE]
     ELSE [n |-> 0, nan |-> TRUE]

RECURSIVE repeat(_, _)
repeat(s, count) == IF count <= 0 THEN <<>> ELSE s \o repeat(s, count - 1)

(***************************************************************************)
(* filters.ts: builtinFilters                                              *)
(***************************************************************************)

Returns(v) == [ok |-> TRUE, value |-> v]
Throws(e) == [ok |-> FALSE, error |-> e]

\* args[i] for a 0-based i: undefined (here "absent") when the call passes fewer.
HasArg(args, i) == i < Len(args)

upper(v, args) == Returns(Str(toUpperCase(JsString(v))))

lower(v, args) == Returns(Str(toLowerCase(JsString(v))))

trimFilter(v, args) == Returns(Str(trim(JsString(v))))

wrap(v, args) ==
  LET prefixArg == IF HasArg(args, 0) THEN At(args, 0) ELSE <<>>
      prefix == prefixArg
      suffix == IF HasArg(args, 1) THEN At(args, 1) ELSE prefix
  IN Returns(Str(prefix \o JsString(v) \o suffix))

\* A pad that puts the fill before the value: fill.repeat(len - s.length) + s.
padLeft(v, args) ==
  LET lenArg == IF HasArg(args, 0) THEN At(args, 0) ELSE <<"0">>
      fillArg == IF HasArg(args, 1) THEN At(args, 1) ELSE <<" ">>
      fill == Slice(IF fillArg # <<>> THEN fillArg ELSE <<" ">>, 0, 1)
  IN Let(JsNumber(lenArg), LAMBDA len :
       IF len.nan THEN Throws(Error("pad: invalid length", lenArg))
       ELSE Let(JsString(v), LAMBDA s :
              Returns(Str(IF Len(s) >= len.n THEN s
                          ELSE repeat(fill, len.n - Len(s)) \o s))))

pad(v, args) ==
  LET lenArg == IF HasArg(args, 0) THEN At(args, 0) ELSE <<"0">>
      fillArg == IF HasArg(args, 1) THEN At(args, 1) ELSE <<" ">>
      fill == Slice(IF fillArg # <<>> THEN fillArg ELSE <<" ">>, 0, 1)
  IN Let(JsNumber(lenArg), LAMBDA len :
       IF len.nan THEN Throws(Error("pad: invalid length", lenArg))
       ELSE Let(JsString(v), LAMBDA s :
              Returns(Str(IF Len(s) >= len.n THEN s
                          ELSE s \o repeat(fill, len.n - Len(s))))))

join(v, args) ==
  LET separator == IF HasArg(args, 0) THEN At(args, 0) ELSE <<>> IN
  IF v.k # "array" THEN Throws(Error("join: value must be an array", <<>>))
  ELSE Returns(Str(joinChars([i \in 1..Len(v.items) |-> JsString(v.items[i])],
                             separator)))

\* A function value of builtinFilters.
Builtin(name) == [name |-> Chars(name), fn |-> "builtin"]

\* The registry: filter name -> the function it holds.
builtinFilters ==
  (Chars("upper") :> Builtin("upper")) @@ (Chars("lower") :> Builtin("lower"))
  @@ (Chars("trim") :> Builtin("trim")) @@ (Chars("wrap") :> Builtin("wrap"))
  @@ (Chars("pad") :> Builtin("pad")) @@ (Chars("join") :> Builtin("join"))

\* What a registry inherits: it is made by an object literal, so a property
\* it does not hold itself is looked up in Object.prototype.
Inherited(name) == [name |-> Chars(name), fn |-> "inherited"]

ObjectPrototype ==
  (Chars("constructor") :> Inherited("constructor"))
  @@ (Chars("toString") :> Inherited("toString"))
  @@ (Chars("toLocaleString") :> Inherited("toLocaleString"))
  @@ (Chars("valueOf") :> Inherited("valueOf"))
  @@ (Chars("hasOwnProperty") :> Inherited("hasOwnProperty"))
  @@ (Chars("isPrototypeOf") :> Inherited("isPrototypeOf"))
  @@ (Chars("propertyIsEnumerable") :> Inherited("propertyIsEnumerable"))
  @@ (Chars("__proto__") :> Inherited("__proto__"))
  @@ (Chars("__defineGetter__") :> Inherited("__defineGetter__"))
  @@ (Chars("__defineSetter__") :> Inherited("__defineSetter__"))
  @@ (Chars("__lookupGetter__") :> Inherited("__lookupGetter__"))
  @@ (Chars("__lookupSetter__") :> Inherited("__lookupSetter__"))

\* registry[key] as JavaScript reads it.
GetProperty(registry, key) ==
  IF key \in DOMAIN registry THEN registry[key]
  ELSE IF key \in DOMAIN ObjectPrototype THEN ObjectPrototype[key]
  ELSE Undefined

\* f(value, ...args) for a property f of Object.prototype, called with no this
\* (module code is strict): Object wraps the value, toString names undefined,
\* isPrototypeOf answers false for what is not an object, __proto__ is not a
\* function, and the others fail to make an object of this.
ApplyInherited(f, v) ==
  CASE f.name = Chars("constructor") ->
         Returns(IF v.k \in {"array", "object"} THEN v ELSE Obj(v))
    [] f.name = Chars("toString") -> Returns(Str(Chars("[object Undefined]")))
    [] f.name = Chars("isPrototypeOf") /\ v.k \notin {"array", "object"} ->
         Returns(Bool(FALSE))
    [] OTHER -> Throws(Error("TypeError", f.name))

\* String.prototype.split(sep) for a one-character sep.
RECURSIVE split(_, _)
split(s, sep) ==
  IF \A i \in 1..Len(s) : s[i] # sep THEN <<s>>
  ELSE LET i == CHOOSE j \in 1..Len(s) :
                  s[j] = sep /\ \A h \in 1..(j - 1) : s[h] # sep
       IN <<SubSeq(s, 1, i - 1)>> \o split(SubSeq(s, i + 1, Len(s)), sep)

\* typeof v === 'object' for a v that is not null and not an array.
IsObject(v) == "k" \in DOMAIN v /\ v.k \in {"record", "object"}

\* The properties an object holds itself.
OwnProperties(v) == IF v.k = "record" THEN v.props ELSE <<>>

\* for (const segment of segments) { ... } of path, from segment n (1-based) on.
RECURSIVE pathWalk(_, _, _)
pathWalk(current, segments, n) ==
  IF n > Len(segments) THEN current
  ELSE IF current = Null \/ current = Undefined THEN Undefined
  ELSE IF "k" \in DOMAIN current /\ current.k = "array" THEN
    LET idx == JsNumber(segments[n]) IN
    IF idx.nan \/ idx.n < 0 THEN Undefined
    ELSE pathWalk(IF idx.n < Len(current.items) THEN At(current.items, idx.n)
                  ELSE Undefined, segments, n + 1)
  ELSE IF IsObject(current)
    THEN pathWalk(GetProperty(OwnProperties(current), segments[n]), segments, n + 1)
  ELSE Undefined

path(v, args) ==
  LET pathArg == IF HasArg(args, 0) THEN At(args, 0) ELSE <<>> IN
  IF pathArg = <<>>
    THEN Throws(Error("path: missing property path argument", <<>>))
  ELSE
    LET rawSegments == split(pathArg, ".")
        segments == Tuple([i \in 1..Len(rawSegments) |-> trim(rawSegments[i])])
    IN IF \E i \in 1..Len(segments) : segments[i] = <<>>
         THEN Throws(Error("path: invalid segment in", pathArg))
       ELSE Let(pathWalk(v, segments, 1), LAMBDA current :
              IF current = Undefined
                THEN Returns(IF HasArg(args, 1) THEN Str(At(args, 1)) ELSE Str(<<>>))
                ELSE Returns(current))

\* String.prototype.indexOf(sub): the 0-based index of the first occurrence, -1
\* when there is none.
startsWithAt(s, p, sub) ==
  /\ p + Len(sub) - 1 <= Len(s)
  /\ SubSeq(s, p, p + Len(sub) - 1) = sub

indexOf(s, sub) ==
  IF \E p \in 1..Len(s) : startsWithAt(s, p, sub)
    THEN (CHOOSE p \in 1..Len(s) :
            startsWithAt(s, p, sub) /\ \A q \in 1..(p - 1) : ~startsWithAt(s, q, sub)) - 1
    ELSE -1

\* A replacement string as String.prototype.replace reads it for a pattern
\* without groups: $$ is a dollar, $& the match, $ and a grave accent (written
\* "GRAVE" here) the text before the match,
\* $' the text after it; every other character stands for itself.
RECURSIVE expandReplacement(_, _, _, _)
expandReplacement(repl, matched, before, after) ==
  IF repl = <<>> THEN <<>>
  ELSE IF Len(repl) >= 2 /\ repl[1] = "$" /\ repl[2] \in {"$", "&", "GRAVE", "'"}
    THEN (CASE repl[2] = "$" -> <<"$">>
            [] repl[2] = "&" -> matched
            [] repl[2] = "GRAVE" -> before
            [] repl[2] = "'" -> after)
         \o expandReplacement(SubSeq(repl, 3, Len(repl)), matched, before, after)
  ELSE <<repl[1]>> \o expandReplacement(Tail(repl), matched, before, after)

\* s.replace(new RegExp(pat, 'g'), repl) for a pattern pat that matches one
\* text only, from position p (1-based) on.
RECURSIVE replaceFrom(_, _, _, _)
replaceFrom(s, pat, repl, p) ==
  IF p > Len(s) THEN <<>>
  ELSE IF startsWithAt(s, p, pat)
    THEN expandReplacement(repl, pat, SubSeq(s, 1, p - 1),
                           SubSeq(s, p + Len(pat), Len(s)))
         \o replaceFrom(s, pat, repl, p + Len(pat))
  ELSE <<s[p]>> \o replaceFrom(s, pat, repl, p + 1)

replaceAll(s, pat, repl) == replaceFrom(s, pat, repl, 1)

\* \w+ from position p on: the position after the last word character.
RECURSIVE wordEnd(_, _)
wordEnd(s, p) ==
  IF p <= Len(s) /\ isIdent(charCodeAt(s[p])) THEN wordEnd(s, p + 1) ELSE p

\* \w+(?:\.\w+)* from position p on, then the closing \$: the position after
\* the match and the path matched, or no match.
RECURSIVE matchPropPath(_, _, _)
matchPropPath(s, p, start) ==
  LET e == wordEnd(s, p) IN
  IF e = p THEN [matched |-> FALSE]
  ELSE IF e <= Len(s) /\ s[e] = "$"
    THEN [matched |-> TRUE, end |-> e + 1, propPath |-> SubSeq(s, start, e - 1)]
  ELSE IF e <= Len(s) /\ s[e] = "."
    THEN matchPropPath(s, e + 1, start)
  ELSE [matched |-> FALSE]

\* String(f) for a member of Object.prototype.
FunctionString(f) == Chars("function ") \o f.name \o Chars("() { [native code] }")

\* prop in current for an object or an array: its own keys and those it
\* inherits from Object.prototype (the members of Array.prototype are not
\* among the keys this model writes).
HasProperty(current, prop) ==
  IF current.k = "array"
    THEN \/ prop = Chars("length")
         \/ /\ prop # <<>>
            /\ \A i \in 1..Len(prop) : prop[i] \in Range(Digits)
            /\ NatToChars(DigitsToNat(prop, 0)) = prop
            /\ DigitsToNat(prop, 0) < Len(current.items)
         \/ prop \in DOMAIN ObjectPrototype
    ELSE prop \in DOMAIN OwnProperties(current) \/ prop \in DOMAIN ObjectPrototype

ReadProperty(current, prop) ==
  IF current.k = "array"
    THEN IF prop = Chars("length") THEN Num(Len(current.items))
         ELSE IF prop \in DOMAIN ObjectPrototype THEN ObjectPrototype[prop]
         ELSE At(current.items, DigitsToNat(prop, 0))
    ELSE GetProperty(OwnProperties(current), prop)

\* The replacer of map's propPattern: for (const prop of props) { ... }, from
\* prop n (1-based) on, then String(current ?? '').
RECURSIVE propValue(_, _, _)
propValue(current, props, n) ==
  IF n > Len(props)
    THEN IF current = Null \/ current = Undefined THEN <<>>
         ELSE IF "fn" \in DOMAIN current THEN FunctionString(current)
         ELSE JsString(current)
  ELSE IF current = Null \/ current = Undefined THEN <<>>
  ELSE IF "k" \in DOMAIN current /\ current.k \in {"record", "object", "array"}
          /\ HasProperty(current, props[n])
    THEN propValue(ReadProperty(current, props[n]), props, n + 1)
  ELSE <<>>

\* rendered.replace(propPattern, (match, propPath) => ...), from position p on.
RECURSIVE replaceProps(_, _, _, _)
replaceProps(s, varName, item, p) ==
  IF p > Len(s) THEN <<>>
  ELSE
    LET open == <<"$">> \o varName \o <<".">>
        m == IF startsWithAt(s, p, open)
               THEN matchPropPath(s, p + Len(open), p + Len(open))
               ELSE [matched |-> FALSE]
    IN IF m.matched
         THEN propValue(item, split(m.propPath, "."), 1)
              \o replaceProps(s, varName, item, m.end)
         ELSE <<s[p]>> \o replaceProps(s, varName, item, p + 1)

\* One turn of for (const item of value) in map.
mapItem(templateStr, varName, item) ==
  LET unescaped == replaceAll(replaceAll(replaceAll(templateStr, <<"\\", "n">>, <<"LF">>),
                                         <<"\\", "t">>, <<"TAB">>),
                              <<"\\", "r">>, <<"CR">>)
      direct == replaceAll(unescaped, <<"$">> \o varName \o <<"$">>, JsString(item))
  IN Str(replaceProps(direct, varName, item, 1))

map(v, args) ==
  LET templateArg == IF HasArg(args, 0) THEN At(args, 0) ELSE <<>> IN
  IF templateArg = <<>>
    THEN Throws(Error("map: missing template expression argument", <<>>))
  ELSE IF ~("k" \in DOMAIN v /\ v.k = "array")
    THEN Throws(Error("map: value must be an array", <<>>))
  ELSE
    LET arrowIndex == indexOf(templateArg, <<"=", ">">>) IN
    IF arrowIndex = -1
      THEN Throws(Error("map: template expression must use => syntax", <<>>))
    ELSE
      LET varName == trim(Slice(templateArg, 0, arrowIndex))
          templateStr == trim(Slice(templateArg, arrowIndex + 2, Len(templateArg)))
      IN IF varName = <<>> THEN Throws(Error("map: missing variable name before =>", <<>>))
         ELSE IF templateStr = <<>>
           THEN Throws(Error("map: missing template after =>", <<>>))
         ELSE IF ~(/\ isIdentStart(charCodeAt(varName[1]))
                   /\ \A i \in 1..Len(varName) : isIdent(charCodeAt(varName[i])))
           THEN Throws(Error("map: invalid variable name", varName))
         ELSE Returns(Arr(Tuple([i \in 1..Len(v.items) |->
                                   mapItem(templateStr, varName, v.items[i])])))

\* Functions a caller puts in policy.filters.
CustomFn(name) == [name |-> Chars(name), fn |-> "custom"]

\* f(value, ...args) for a function value f of a registry.
ApplyFilter(f, v, args) ==
  IF f.fn = "inherited" THEN ApplyInherited(f, v)
  ELSE IF f.fn = "builtin" THEN
    CASE f.name = Chars("upper") -> upper(v, args)
      [] f.name = Chars("lower") -> lower(v, args)
      [] f.name = Chars("trim") -> trimFilter(v, args)
      [] f.name = Chars("wrap") -> wrap(v, args)
      [] f.name = Chars("pad") -> pad(v, args)
      [] f.name = Chars("join") -> join(v, args)
  ELSE
    CASE f.name = Chars("exclaim") -> Returns(Str(JsString(v) \o <<"!">>))
      [] f.name = Chars("boom") -> Throws(Error("boom", <<>>))

\* policy.transform(slot, value) for the hooks a caller supplies.
ApplyTransform(hook, slot, v) ==
  CASE hook = "redact" -> Returns(IF slot.name = <<"a">> THEN Str(<<"#">>) ELSE v)
    [] hook = "failOnB" -> IF slot.name = <<"b">>
                             THEN Throws(Error("transform failed", slot.name))
                             ELSE Returns(v)

defaultAsString(v) == JsString(v)

\* rp.asString(value), which render expects to give a string.
ApplyAsString(fn, v) ==
  CASE fn = "defaultAsString" -> Returns(defaultAsString(v))
    [] fn = "String" -> Returns(JsString(v))
    [] fn = "angle" -> Returns(<<"<">> \o JsString(v) \o <<">">>)
    [] fn = "fail" -> Throws(Error("asString failed", <<>>))

(***************************************************************************)
(* filters.ts: resolvePolicy                                               *)
(***************************************************************************)

\* A TemplatePolicy argument. defined = FALSE is the argument left out; a field
\* left out is "undefined" (filters left out behaves as {}: policy?.filters ?? {}).
Policy(filters, transform, asString) ==
  [filters |-> filters, transform |-> transform, asString |-> asString,
   defined |-> TRUE]

NoPolicy ==
  [filters |-> <<>>, transform |-> "undefined", asString |-> "undefined",
   defined |-> FALSE]

\* The spreads the other way round, { ...(policy?.filters ?? {}), ...builtinFilters }:
\* a built-in wins over the caller's filter of the same name.
resolvePolicyBuiltinsWin(policy) ==
  [filters |-> builtinFilters @@ (IF policy.defined THEN policy.filters ELSE <<>>),
   transform |-> IF policy.defined THEN policy.transform ELSE "undefined",
   asString |-> IF policy.defined /\ policy.asString # "undefined"
                  THEN policy.asString ELSE "defaultAsString"]

\* { ...builtinFilters, ...(policy?.filters ?? {}) }: the later spread wins.
resolvePolicy(policy) ==
  [filters |-> (IF policy.defined THEN policy.filters ELSE <<>>) @@ builtinFilters,
   transform |-> IF policy.defined THEN policy.transform ELSE "undefined",
   asString |-> IF policy.defined /\ policy.asString # "undefined"
                  THEN policy.asString ELSE "defaultAsString"]

\* A ResolvedPolicy handed where a TemplatePolicy is expected (formatTo).
AsPolicy(rp) == Policy(rp.filters, rp.transform, rp.asString)

(***************************************************************************)
(* template.ts: CompiledTemplate                                           *)
(***************************************************************************)

NoError == Error("", <<>>)

\* One entry of a call's log: a call out of the library into a function the
\* policy (or the sink) holds, with what it was given and what it did.
LogEntry(fn, k, callee, input, args, out) ==
  [out |-> out, args |-> args, slot |-> k, fn |-> fn, callee |-> callee,
   input |-> input]

\* A check of the value instead of the key: !record[key].
truthyProperty(record, key) ==
  /\ key \in DOMAIN record
  /\ record[key].k \notin {"undefined", "null"}
  /\ record[key] \notin {Str(<<>>), Num(0), Bool(FALSE)}

\* Object.prototype.hasOwnProperty.call(record, key)
hasOwnProperty(record, key) == key \in DOMAIN record

\* for (const slot of this.slots) { ... }, from slot k (1-based) on.
RECURSIVE evaluateLoop(_, _, _, _, _, _)
evaluateLoop(ss, k, record, rp, values, log) ==
  IF k > Len(ss) THEN [ok |-> TRUE, error |-> NoError, values |-> values, log |-> log]
  ELSE
    LET slot == ss[k] IN
    IF ~hasOwnProperty(record, slot.name)
      THEN [ok |-> FALSE,
            error |-> Error("Missing value for slot", slot.name), values |-> values, log |-> log]
    ELSE
      LET raw == record[slot.name]
          hooked == rp.transform # "undefined"
      IN
      Let(IF hooked THEN ApplyTransform(rp.transform, slot, raw) ELSE Returns(raw),
          LAMBDA tr :
      LET log1 == IF hooked
                    THEN Append(log, LogEntry("transform", k, Chars(rp.transform), raw,
                                              <<>>, tr))
                    ELSE log
      IN
      IF ~tr.ok
        THEN [ok |-> FALSE, error |-> tr.error, values |-> values, log |-> log1]
      ELSE IF slot.filter # <<>> THEN
        LET f == GetProperty(rp.filters, slot.filter) IN
        IF f = Undefined
          THEN [ok |-> FALSE,
                error |-> Error("Unknown filter", slot.filter), values |-> values, log |-> log1]
        ELSE
          Let(ApplyFilter(f, tr.value, slot.args), LAMBDA r :
            LET log2 == Append(log1, LogEntry("filter", k, f, tr.value, slot.args, r))
            IN IF ~r.ok
                 THEN [ok |-> FALSE, error |-> r.error, values |-> values, log |-> log2]
                 ELSE evaluateLoop(ss, k + 1, record, rp, Append(values, r.value), log2))
      ELSE evaluateLoop(ss, k + 1, record, rp, Append(values, tr.value), log1))

\* An evaluation that passes the hook by: const transformed = raw.
evaluateNoHook(ss, record, rp) ==
  evaluateLoop(ss, 1, record, [rp EXCEPT !.transform = "undefined"], <<>>, <<>>)

\* An evaluation that checks the key of every slot before it evaluates the
\* first: a missing key of a later slot is raised ahead of an earlier slot's
\* hook and filter.
evaluateKeysFirst(ss, record, rp) ==
  LET absent == {j \in 1..Len(ss) : ~hasOwnProperty(record, ss[j].name)} IN
  IF absent # {}
    THEN [ok |-> FALSE,
          error |-> Error("Missing value for slot",
                          ss[CHOOSE j \in absent : \A o \in absent : j <= o].name),
          values |-> <<>>, log |-> <<>>]
    ELSE evaluateLoop(ss, 1, record, rp, <<>>, <<>>)

evaluate(ss, record, rp) == evaluateLoop(ss, 1, record, rp, <<>>, <<>>)

\* chunks[i] ?? '' for a 0-based i.
ChunkAt(cs, i) == IF i < Len(cs) THEN At(cs, i) ELSE <<>>

\* let out = chunks[0] ?? ''; for (...) { out += rp.asString(values[i]);
\* out += chunks[i + 1] ?? '' }, from slot i (0-based) on.
RECURSIVE assemble(_, _, _, _, _, _, _)
assemble(cs, ss, values, rp, i, out, log) ==
  IF i >= Len(ss) THEN [ok |-> TRUE, error |-> NoError, value |-> out, log |-> log]
  ELSE
    Let(ApplyAsString(rp.asString, At(values, i)), LAMBDA r :
      LET log1 == Append(log, LogEntry("asString", i + 1, Chars(rp.asString),
                                       At(values, i), <<>>,
                                       IF r.ok THEN Returns(Str(r.value)) ELSE r))
      IN IF ~r.ok THEN [ok |-> FALSE, error |-> r.error, value |-> out, log |-> log1]
         ELSE assemble(cs, ss, values, rp, i + 1,
                       out \o r.value \o ChunkAt(cs, i + 1), log1))

\* CompiledTemplate.render on a template with chunks cs and slots ss.
render(cs, ss, params, policy) ==
  Let(resolvePolicy(policy), LAMBDA rp :
    Let(evaluate(ss, params, rp), LAMBDA ev :
      IF ~ev.ok THEN [ok |-> FALSE, error |-> ev.error, value |-> <<>>, log |-> ev.log]
      ELSE assemble(cs, ss, ev.values, rp, 0, ChunkAt(cs, 0), ev.log)))

\* Array.prototype.slice(): a new array, named arr in the result that holds it,
\* with the elements of the array it is taken from.
slice(arr) == {arr}

\* A toParts that stringifies what it returns: values.map(v => String(v)).
toPartsStringified(cs, ss, params, policy) ==
  Let(evaluate(ss, params, resolvePolicy(policy)), LAMBDA ev :
    [ok |-> ev.ok, error |-> ev.error,
     value |-> [chunks |-> cs, slots |-> ss,
                values |-> Tuple([i \in 1..Len(ev.values) |->
                                    Str(JsString(ev.values[i]))]),
                fresh |-> slice("chunks") \cup slice("slots") \cup {"values"}],
     log |-> ev.log])

\* CompiledTemplate.toParts. fresh names the arrays of the result that were
\* made by this call; what it holds besides belongs to the template.
toParts(cs, ss, params, policy) ==
  Let(evaluate(ss, params, resolvePolicy(policy)), LAMBDA ev :
    [ok |-> ev.ok, error |-> ev.error,
     value |-> [chunks |-> cs, slots |-> ss, values |-> ev.values,
                fresh |-> slice("chunks") \cup slice("slots") \cup {"values"}],
     log |-> ev.log])

\* record[s.name] of a key the record lacks is undefined.
Lookup(record, name) == IF name \in DOMAIN record THEN record[name] ELSE Undefined

\* CompiledTemplate.toPartsRaw
toPartsRaw(cs, ss, params) ==
  [ok |-> TRUE, error |-> NoError,
   value |-> [chunks |-> cs, slots |-> ss,
              values |-> Tuple([i \in 1..Len(ss) |-> Lookup(params, ss[i].name)]),
              fresh |-> slice("chunks") \cup slice("slots") \cup {"values"}],
   log |-> <<>>]

(***************************************************************************)
(* utils.ts: bind, tryRender, formatTo                                     *)
(***************************************************************************)

\* A merge that loses the bound record: { ...rest }.
mergedParamsRestOnly(b, rest) == rest

\* A merge the other way round, { ...rest, ...bound }: the bound value wins.
mergedParamsBoundLast(b, rest) == b @@ rest

\* { ...bound, ...rest }
mergedParams(b, rest) == rest @@ b

\* A merge of the two policies, { ...defaultPolicy, ...policy } with the
\* filters merged too: what the call's policy leaves out, the default fills in.
CoalesceMerged(policy, defaultPolicy) ==
  IF ~policy.defined THEN defaultPolicy
  ELSE IF ~defaultPolicy.defined THEN policy
  ELSE Policy(policy.filters @@ defaultPolicy.filters,
              IF policy.transform # "undefined" THEN policy.transform
              ELSE defaultPolicy.transform,
              IF policy.asString # "undefined" THEN policy.asString
              ELSE defaultPolicy.asString)

\* policy ?? defaultPolicy
Coalesce(policy, defaultPolicy) == IF policy.defined THEN policy ELSE defaultPolicy

\* The render method of the wrapper bind returns.
boundRender(cs, ss, b, defaultPolicy, params, policy) ==
  Let(resolvePolicy(Coalesce(policy, defaultPolicy)), LAMBDA rp :
    Let(evaluate(ss, mergedParams(b, params), rp), LAMBDA ev :
      IF ~ev.ok THEN [ok |-> FALSE, error |-> ev.error, value |-> <<>>, log |-> ev.log]
      ELSE assemble(cs, ss, ev.values, rp, 0, ChunkAt(cs, 0), ev.log)))

\* The toParts method of the wrapper bind returns.
boundToParts(cs, ss, b, defaultPolicy, params, policy) ==
  Let(evaluate(ss, mergedParams(b, params),
               resolvePolicy(Coalesce(policy, defaultPolicy))), LAMBDA ev :
    [ok |-> ev.ok, error |-> ev.error,
     value |-> [chunks |-> cs, slots |-> ss, values |-> ev.values,
                fresh |-> slice("chunks") \cup slice("slots") \cup {"values"}],
     log |-> ev.log])

\* The toPartsRaw method of the wrapper bind returns.
boundToPartsRaw(cs, ss, b, params) == toPartsRaw(cs, ss, mergedParams(b, params))

\* return { ok: true, value: t.render(params, policy) } with no try around it:
\* what render raises, the call raises.
tryRenderNoCatch(rendered) ==
  [ok |-> rendered.ok, error |-> rendered.error,
   value |-> [ok |-> TRUE, error |-> NoError, value |-> rendered.value],
   log |-> rendered.log]

\* try { return { ok: true, value: t.render(params, policy) } }
\* catch (e) { return { ok: false, error: e } }, given what t.render did.
tryRender(rendered) ==
  [ok |-> TRUE, error |-> NoError,
   value |-> IF rendered.ok
               THEN [ok |-> TRUE, error |-> NoError, value |-> rendered.value]
               ELSE [ok |-> FALSE, error |-> rendered.error, value |-> <<>>],
   log |-> rendered.log]

\* sink.text(parts.chunks[0] ?? ''); for (...) { sink.value(rp.asString(...));
\* sink.text(parts.chunks[i + 1] ?? '') }, from slot i (0-based) on.
RECURSIVE sinkLoop(_, _, _, _, _)
sinkLoop(parts, rp, i, written, log) ==
  IF i >= Len(parts.slots)
    THEN [ok |-> TRUE, error |-> NoError, value |-> written, log |-> log]
  ELSE
    Let(ApplyAsString(rp.asString, At(parts.values, i)), LAMBDA r :
      LET log1 == Append(log, LogEntry("asString", i + 1, Chars(rp.asString),
                                       At(parts.values, i), <<>>,
                                       IF r.ok THEN Returns(Str(r.value)) ELSE r))
      IN IF ~r.ok THEN [ok |-> FALSE, error |-> r.error, value |-> written, log |-> log1]
         ELSE
           LET text == ChunkAt(parts.chunks, i + 1)
               log2 == log1 \o
                       <<LogEntry("sink.value", i + 1, <<>>, Str(r.value), <<>>,
                                  Returns(Undefined)),
                         LogEntry("sink.text", i + 1, <<>>, Str(text), <<>>,
                                  Returns(Undefined))>>
           IN sinkLoop(parts, rp, i + 1, written \o <<r.value, text>>, log2))

\* A formatTo that writes the first chunk before it evaluates:
\* sink.text(t.chunks[0] ?? '') ahead of t.toParts(params, rp).
formatToSinkFirst(parts, policy) ==
  LET rp == resolvePolicy(policy)
      first == ChunkAt(parts.value.chunks, 0)
      log0 == Append(parts.log, LogEntry("sink.text", 0, <<>>, Str(first), <<>>,
                                         Returns(Undefined)))
  IN IF ~parts.ok
       THEN [ok |-> FALSE, error |-> parts.error, value |-> <<first>>, log |-> log0]
       ELSE sinkLoop(parts.value, rp, 0, <<first>>, log0)

\* A formatTo that writes no text before the first value: the loop starts
\* without sink.text(parts.chunks[0] ?? '').
formatToFromFirstValue(parts, policy) ==
  LET rp == resolvePolicy(policy) IN
  IF ~parts.ok
    THEN [ok |-> FALSE, error |-> parts.error, value |-> <<>>, log |-> parts.log]
    ELSE sinkLoop(parts.value, rp, 0, <<>>, parts.log)

\* formatTo, given what t.toParts(params, rp) did; value is what the sink received.
formatTo(parts, policy) ==
  LET rp == resolvePolicy(policy) IN
  IF ~parts.ok
    THEN [ok |-> FALSE, error |-> parts.error, value |-> <<>>, log |-> parts.log]
  ELSE
    LET first == ChunkAt(parts.value.chunks, 0) IN
    sinkLoop(parts.value, rp, 0, <<first>>,
             Append(parts.log, LogEntry("sink.text", 0, <<>>, Str(first), <<>>,
                                        Returns(Undefined))))

(***************************************************************************)
(* template.ts: compile, concat                                            *)
(***************************************************************************)

(***************************************************************************)
(* utils.ts: slotNames, hasSlot, missingKeys, extraKeys, validate          *)
(***************************************************************************)

\* An object as its own enumerable entries <<key, value>> in insertion order.
\* Object.keys(params): the keys in that order.
ObjectKeys(entries) == Tuple([i \in 1..Len(entries) |-> entries[i][1]])

\* The same object as what a read by key sees: params[key] and
\* Object.prototype.hasOwnProperty.call(params, key).
Properties(entries) ==
  [key \in Range(ObjectKeys(entries)) |->
     entries[CHOOSE i \in 1..Len(entries) : entries[i][1] = key][2]]

\* A slotNames without the Set: every slot's name, repeated ones too.
slotNamesAll(ss) == Tuple([k \in 1..Len(ss) |-> ss[k].name])

\* for (const s of t.slots) if (!seen.has(s.name)) { seen.add; out.push }
RECURSIVE slotNamesLoop(_, _, _, _)
slotNamesLoop(ss, k, seen, out) ==
  IF k > Len(ss) THEN out
  ELSE IF ss[k].name \notin seen
    THEN slotNamesLoop(ss, k + 1, seen \cup {ss[k].name}, Append(out, ss[k].name))
    ELSE slotNamesLoop(ss, k + 1, seen, out)

slotNames(ss) == slotNamesLoop(ss, 1, {}, <<>>)

\* t.slots.some(s => s.name === name)
hasSlot(ss, name) == \E k \in 1..Len(ss) : ss[k].name = name

\* A missingKeys that reads the values: params[s] === undefined.
missingKeysByValue(ss, params) ==
  SelectSeq(slotNames(ss),
            LAMBDA s : s \notin Range(ObjectKeys(params))
                       \/ Properties(params)[s] = Undefined)

missingKeys(ss, params) ==
  LET set == Range(ObjectKeys(params)) IN
  SelectSeq(slotNames(ss), LAMBDA s : s \notin set)

extraKeys(ss, params) ==
  LET used == Range(slotNames(ss)) IN
  SelectSeq(ObjectKeys(params), LAMBDA k : k \notin used)

validate(ss, params) ==
  LET miss == missingKeys(ss, params)
      extra == extraKeys(ss, params)
  IN [ok |-> Len(miss) = 0 /\ Len(extra) = 0, extra |-> extra, missing |-> miss]

\* compile(source): the template it returns, or the error parseTemplate raises.
compile(src) ==
  Let(parseTemplate(src), LAMBDA p :
    IF p.ok
      THEN [ok |-> TRUE, error |-> NoError,
            value |-> [source |-> src, chunks |-> p.chunks, slots |-> p.slots],
            log |-> <<>>]
      ELSE [ok |-> FALSE, error |-> p.error,
            value |-> [source |-> src, chunks |-> <<>>, slots |-> <<>>],
            log |-> <<>>])

\* concat(a, b) for the sources of a and b.
concat(a, b) == compile(a \o b)


(***************************************************************************)
(* utils.ts: bind                                                          *)
(***************************************************************************)

\* bind(t, bound, defaultPolicy): the wrapper holds t's own source, chunks and
\* slots (const chunks = t.chunks), so nothing of it is fresh.
bind(src, cs, ss) ==
  [ok |-> TRUE, error |-> NoError,
   value |-> [source |-> src, chunks |-> cs, slots |-> ss, fresh |-> {}],
   log |-> <<>>]

(***************************************************************************)
(* Inputs                                                                  *)
(***************************************************************************)

\* A source is at most MaxPieces of these pieces, one after the other.
MaxPieces == 2

Pieces ==
  {Chars(p) : p \in {"x", "\\", "{", "{a}", " {b}", "{a|upper}",
                     "{b|upper|exclaim}", "{b|exclaim}", "{a|upper|nope}",
                     "{b|toString}"}}

RECURSIVE SourcesOf(_)
SourcesOf(n) ==
  IF n = 0 THEN {<<>>}
  ELSE LET shorter == SourcesOf(n - 1) IN
       shorter \cup {s \o p : s \in shorter, p \in Pieces}

Sources == SourcesOf(MaxPieces)

KeyA == <<"a">>
KeyB == <<"b">>
Hi == Str(Chars("hi"))

\* The records a caller passes: over the keys a and b, with a key left out,
\* holding a string, or present and holding a falsy value.
Records ==
  {<<>>, KeyA :> Hi, KeyB :> Hi, (KeyA :> Hi) @@ (KeyB :> Hi),
   (KeyA :> Undefined) @@ (KeyB :> Null),
   (KeyA :> Str(<<>>)) @@ (KeyB :> Num(0)),
   KeyA :> Bool(FALSE)}

\* The policies a caller passes.
Policies ==
  {NoPolicy,
   Policy(Chars("upper") :> CustomFn("exclaim"), "undefined", "String"),
   Policy(Chars("exclaim") :> CustomFn("exclaim"), "redact", "angle"),
   Policy(Chars("upper") :> CustomFn("boom"), "failOnB", "undefined"),
   Policy(<<>>, "undefined", "fail")}

\* The records and default policies a caller binds.
BoundRecords == {KeyA :> Hi, KeyB :> Hi}

DefaultPolicies ==
  {NoPolicy, Policy(Chars("upper") :> CustomFn("exclaim"), "undefined", "String")}

(***************************************************************************)
(* The state machine: one caller, one template under its hands             *)
(***************************************************************************)

\* The call the caller made last and has not let go of: what it was given and
\* what it did. ok is FALSE when it raised. Between calls op is "none", and
\* wrote names the object the caller wrote to when it let go of the last result.
Call(op, on, params, policy, outcome) ==
  [ok |-> outcome.ok, error |-> outcome.error, value |-> outcome.value,
   policy |-> policy, log |-> outcome.log, params |-> params, op |-> op,
   on |-> on, wrote |-> "none"]

NoOutcome == [ok |-> TRUE, error |-> NoError, value |-> <<>>, log |-> <<>>]

Idle == Call("none", "none", <<>>, NoPolicy, NoOutcome)

NoBound == [bound |-> <<>>, defaultPolicy |-> NoPolicy, present |-> FALSE]

Init ==
  /\ source = <<>>
  /\ chunks = <<>>
  /\ slots = <<>>
  /\ compiled = FALSE
  /\ frozen = {}
  /\ bound = NoBound
  /\ call = Idle

\* The caller takes the template c that compile(src) returned in place of the
\* one at hand. Its arrays and descriptors went through freeze in parseTemplate
\* and parseSlotBody. A compile that raised leaves the caller what it had.
Install(src, c) ==
  /\ call' = Call("compile", "module", src, NoPolicy, c)
  /\ IF c.ok
       THEN /\ source' = c.value.source
            /\ chunks' = c.value.chunks
            /\ slots' = c.value.slots
            /\ compiled' = TRUE
            /\ frozen' = freeze("chunks") \cup freeze("slots")
                           \cup freeze("descriptor") \cup freeze("args")
            /\ bound' = NoBound
       ELSE UNCHANGED <<source, chunks, slots, compiled, frozen, bound>>

Compile ==
  /\ call.op = "none" /\ call.wrote = "none"
  /\ \E src \in Sources : Install(src, compile(src))

\* concat(t, other): a template of its own; t stays as it is.
Concat ==
  /\ call.op = "none" /\ call.wrote = "none"
  /\ compiled
  /\ \E src \in SourcesOf(1) :
       /\ compile(src).ok
       /\ call' = Call("concat", "module", src, NoPolicy, concat(source, src))
  /\ UNCHANGED <<source, chunks, slots, compiled, frozen, bound>>

Render ==
  /\ call.op = "none" /\ call.wrote = "none"
  /\ compiled
  /\ \E params \in Records, policy \in Policies :
       call' = Call("render", "template", params, policy,
                    render(chunks, slots, params, policy))
  /\ UNCHANGED <<source, chunks, slots, compiled, frozen, bound>>

ToParts ==
  /\ call.op = "none" /\ call.wrote = "none"
  /\ compiled
  /\ \E params \in Records, policy \in Policies :
       call' = Call("toParts", "template", params, policy,
                    toParts(chunks, slots, params, policy))
  /\ UNCHANGED <<source, chunks, slots, compiled, frozen, bound>>

ToPartsRaw ==
  /\ call.op = "none" /\ call.wrote = "none"
  /\ compiled
  /\ \E params \in Records :
       call' = Call("toPartsRaw", "template", params, NoPolicy,
                    toPartsRaw(chunks, slots, params))
  /\ UNCHANGED <<source, chunks, slots, compiled, frozen, bound>>

TryRender ==
  /\ call.op = "none" /\ call.wrote = "none"
  /\ compiled
  /\ \E params \in Records, policy \in Policies :
       call' = Call("tryRender", "module", params, policy,
                    tryRender(render(chunks, slots, params, policy)))
  /\ UNCHANGED <<source, chunks, slots, compiled, frozen, bound>>

\* formatTo hands t.toParts the policy it resolved itself.
FormatTo ==
  /\ call.op = "none" /\ call.wrote = "none"
  /\ compiled
  /\ \E params \in Records, policy \in Policies :
       call' = Call("formatTo", "module", params, policy,
                    formatTo(toParts(chunks, slots, params,
                                     AsPolicy(resolvePolicy(policy))), policy))
  /\ UNCHANGED <<source, chunks, slots, compiled, frozen, bound>>

Bind ==
  /\ call.op = "none" /\ call.wrote = "none"
  /\ compiled
  /\ \E b \in BoundRecords, defaultPolicy \in DefaultPolicies :
       /\ bound' = [bound |-> b, defaultPolicy |-> defaultPolicy, present |-> TRUE]
       /\ call' = Call("bind", "module", b, defaultPolicy, bind(source, chunks, slots))
  /\ UNCHANGED <<source, chunks, slots, compiled, frozen>>

BoundRender ==
  /\ call.op = "none" /\ call.wrote = "none"
  /\ bound.present
  /\ \E params \in Records, policy \in Policies :
       call' = Call("render", "bound", params, policy,
                    boundRender(chunks, slots, bound.bound, bound.defaultPolicy,
                                params, policy))
  /\ UNCHANGED <<source, chunks, slots, compiled, frozen, bound>>

BoundToParts ==
  /\ call.op = "none" /\ call.wrote = "none"
  /\ bound.present
  /\ \E params \in Records, policy \in Policies :
       call' = Call("toParts", "bound", params, policy,
                    boundToParts(chunks, slots, bound.bound, bound.defaultPolicy,
                                 params, policy))
  /\ UNCHANGED <<source, chunks, slots, compiled, frozen, bound>>

BoundToPartsRaw ==
  /\ call.op = "none" /\ call.wrote = "none"
  /\ bound.present
  /\ \E params \in Records :
       call' = Call("toPartsRaw", "bound", params, NoPolicy,
                    boundToPartsRaw(chunks, slots, bound.bound, params))
  /\ UNCHANGED <<source, chunks, slots, compiled, frozen, bound>>

\* What a write does to an array of chunks: chunks.push('z').
WriteChunks(cs) == Append(cs, <<"z">>)

\* What a write does to the slots: slots.push(d), slots[0].name = 'z',
\* slots[0].args.push('z').
WriteSlots(ss, target) ==
  CASE target = "slots" ->
         Append(ss, [args |-> EMPTY_ARGS, filters |-> <<>>, name |-> <<"z">>,
                     filter |-> <<>>])
    [] target = "descriptor" -> [ss EXCEPT ![1].name = <<"z">>]
    [] target = "args" -> [ss EXCEPT ![1].args = Append(@, <<"z">>)]

\* The caller writes to an object it reached through the result of its call
\* (the arrays of a toParts or toPartsRaw result, the chunks and slots of a
\* bound wrapper, a slot descriptor or its args) and lets go of the result. A
\* fresh array takes the write and is gone with the result; an object of the
\* template takes the write unless it is frozen.
CallerWrite ==
  /\ call.op \in {"toParts", "toPartsRaw", "bind"}
  /\ call.ok
  /\ \E target \in {"chunks", "slots", "values", "descriptor", "args"} :
       /\ target = "values" => call.op # "bind"
       /\ target \in {"descriptor", "args"} => Len(call.value.slots) > 0
       /\ call' = [Idle EXCEPT !.wrote = target]
       /\ IF target \in call.value.fresh \/ target \in frozen
            THEN UNCHANGED <<chunks, slots>>
            ELSE /\ chunks' = IF target = "chunks" THEN WriteChunks(chunks) ELSE chunks
                 /\ slots' = IF target = "chunks" THEN slots
                             ELSE WriteSlots(slots, target)
  /\ UNCHANGED <<source, compiled, frozen, bound>>

\* The caller lets go of the result of its call.
Return ==
  /\ call # Idle
  /\ call' = Idle
  /\ UNCHANGED <<source, chunks, slots, compiled, frozen, bound>>

Next ==
  \/ Compile
  \/ Concat
  \/ Render
  \/ ToParts
  \/ ToPartsRaw
  \/ TryRender
  \/ FormatTo
  \/ Bind
  \/ BoundRender
  \/ BoundToParts
  \/ BoundToPartsRaw
  \/ CallerWrite
  \/ Return

Spec == Init /\ [][Next]_vars

(***************************************************************************)
(* Properties                                                              *)
(***************************************************************************)

\* The call at hand is op, made on the template itself or on a bound wrapper.
IsCall(op, on) == call.op = op /\ call.on = on

\* The entries of a call's log that are calls of fn.
CallsOf(log, fn) == SelectSeq(log, LAMBDA e : e.fn = fn)

\* The literal text of a source, escape-decoded, cut at its slots: the text
\* before the first slot, between each slot and the next, and after the last,
\* each of them possibly empty. Read on sources that compile accepts.
RECURSIVE textBetween(_, _, _, _)
textBetween(src, i, buf, cs) ==
  IF i >= Len(src) THEN Append(cs, buf)
  ELSE IF At(src, i) = "\\"
    THEN IF i + 1 < Len(src)
           THEN textBetween(src, i + 2, Append(buf, decodeTextEscape(At(src, i + 1))), cs)
           ELSE textBetween(src, i + 1, Append(buf, "\\"), cs)
  ELSE IF At(src, i) = "{"
    THEN textBetween(src, findClose(src, i + 1).i + 1, <<>>, Append(cs, buf))
  ELSE textBetween(src, i + 1, Append(buf, At(src, i)), cs)

\* text[1] + strs[1] + text[2] + ... + strs[n] + text[n + 1], from strs[i] on.
RECURSIVE interleave(_, _, _)
interleave(text, strs, i) ==
  IF i > Len(strs) THEN <<>>
  ELSE strs[i] \o text[i + 1] \o interleave(text, strs, i + 1)

\* The strings asString returned during a call, in call order.
Stringified(log) ==
  LET calls == CallsOf(log, "asString") IN
  Tuple([i \in 1..Len(calls) |-> calls[i].out.value.s])

\* C1: whenever render returns, the string it returns is the literal text of
\* the source and the stringified slot values in source order: text before the
\* first slot, value of slot 1, text between slot 1 and slot 2, ..., value of
\* the last slot, text after the last slot.
C1_RenderInterleaves ==
  (IsCall("render", "template") /\ call.ok) =>
    LET text == textBetween(source, 0, <<>>, <<>>) IN
    call.value = text[1] \o interleave(text, Stringified(call.log), 1)

\* C2: every template compile returned has one chunk more than it has slots.
C2_ChunksOneMoreThanSlots == compiled => Len(chunks) = Len(slots) + 1

\* The policy a call on the template resolves.
Resolved == resolvePolicy(call.policy)

\* The value of slot k after the transform hook and before its filters.
Transformed(k) ==
  LET raw == call.params[slots[k].name] IN
  IF Resolved.transform = "undefined" THEN raw
  ELSE ApplyTransform(Resolved.transform, slots[k], raw).value

\* fk(...f2(f1(v, args1), args2)..., argsk) for the chain fs, from filter j on.
RECURSIVE chainValue(_, _, _, _)
chainValue(fs, rp, v, j) ==
  IF j > Len(fs) THEN Returns(v)
  ELSE IF fs[j].name \notin DOMAIN rp.filters
    THEN Throws(Error("Unknown filter", fs[j].name))
  ELSE Let(ApplyFilter(rp.filters[fs[j].name], v, fs[j].args), LAMBDA r :
         IF r.ok THEN chainValue(fs, rp, r.value, j + 1) ELSE r)

\* Every filter name of the chain of slot k is in the registry rp.
ChainKnown(k, rp) ==
  \A j \in 1..Len(slots[k].filters) : slots[k].filters[j].name \in DOMAIN rp.filters

\* C3: whenever toParts returns, the value of every slot whose chain f1, ..., fk
\* holds only registered filters is fk(...f2(f1(t, args1), args2)..., argsk),
\* t being the transformed record value.
C3_ChainAppliedLeftToRight ==
  (IsCall("toParts", "template") /\ call.ok) =>
    \A k \in 1..Len(slots) :
      ChainKnown(k, Resolved) =>
        LET r == chainValue(slots[k].filters, Resolved, Transformed(k), 1) IN
        r.ok /\ call.value.values[k] = r.value

\* The slots whose name the record of the call has no entry for.
AbsentSlots == {k \in 1..Len(slots) : slots[k].name \notin DOMAIN call.params}

FirstAbsent == CHOOSE k \in AbsentSlots : \A other \in AbsentSlots : k <= other

\* The call raised the missing-value error naming the slot name.
RaisedMissing(name) == ~call.ok /\ call.error = Error("Missing value for slot", name)

IsEvaluation == IsCall("render", "template") \/ IsCall("toParts", "template")

\* C4 as stated: render and toParts raise the missing-value error naming a slot
\* the record lacks exactly when the record lacks the key of some slot.
C4_MissingExactlyWhenAbsent ==
  IsEvaluation =>
    ((AbsentSlots # {}) <=>
       \E k \in AbsentSlots : RaisedMissing(slots[k].name))

\* C4: render and toParts raise the missing-value error only for the first slot,
\* in slot order, whose key the record lacks, and they do raise it when the
\* slots before that one evaluate without an error; a record that lacks the key
\* of some slot makes the call raise; when every slot key is present, whatever
\* value it holds (undefined, null, "", 0, false), no missing-value error is
\* raised.
C4_MissingIsFirstAbsentKey ==
  IsEvaluation =>
    /\ (~call.ok /\ call.error.message = "Missing value for slot") =>
         (AbsentSlots # {} /\ call.error.subject = slots[FirstAbsent].name)
    /\ AbsentSlots # {} => ~call.ok
    /\ (AbsentSlots # {}
        /\ evaluate(SubSeq(slots, 1, FirstAbsent - 1), call.params, Resolved).ok)
         => RaisedMissing(slots[FirstAbsent].name)

\* A value JavaScript takes for false.
Falsy(v) ==
  \/ v.k \in {"undefined", "null"}
  \/ v.k = "string" /\ v.s = <<>>
  \/ v.k = "number" /\ v.n = 0
  \/ v.k = "boolean" /\ ~v.b

\* render returned for a record that holds a falsy value under a slot key.
C4_FalsyValueRendered ==
  /\ IsCall("render", "template") /\ call.ok
  /\ \E k \in 1..Len(slots) : Falsy(call.params[slots[k].name])

\* C5: render on a record that holds every slot key, under a policy without a
\* transform hook, raises the unknown-filter error naming a filter of the chain
\* whenever some filter name of some slot's chain is not in the registry.
C5_UnknownFilterAnywhereRaises ==
  (/\ IsCall("render", "template")
   /\ AbsentSlots = {}
   /\ Resolved.transform = "undefined"
   /\ \E k \in 1..Len(slots) : ~ChainKnown(k, Resolved)) =>
    /\ ~call.ok
    /\ call.error.message = "Unknown filter"
    /\ \E k \in 1..Len(slots) : \E j \in 1..Len(slots[k].filters) :
         /\ slots[k].filters[j].name = call.error.subject
         /\ call.error.subject \notin DOMAIN Resolved.filters

\* C6: tryRender never raises. It returns {ok: true, value} with the string
\* render returns on the same template, record and policy when render returns,
\* and {ok: false, error} with the error render raises when render raises.
C6_TryRenderNeverRaises ==
  IsCall("tryRender", "module") =>
    /\ call.ok
    /\ Let(render(chunks, slots, call.params, call.policy), LAMBDA r :
         IF r.ok
           THEN call.value.ok /\ call.value.value = r.value
           ELSE ~call.value.ok /\ call.value.error = r.error)

\* tryRender returned a failure result for each kind of error render raises:
\* here the one a filter raised from inside.
C6_TryRenderCaughtFilterError ==
  /\ IsCall("tryRender", "module")
  /\ call.ok /\ ~call.value.ok
  /\ call.value.error = Error("boom", <<>>)

\* B \cup R for records B and R.
UnionRecord(B, R) ==
  [key \in DOMAIN B \cup DOMAIN R |-> IF key \in DOMAIN B THEN B[key] ELSE R[key]]

\* The call is made on a wrapper bound without a default policy, with a record
\* that shares no key with the bound one.
BoundDisjoint ==
  /\ call.on = "bound"
  /\ bound.present
  /\ bound.defaultPolicy = NoPolicy
  /\ DOMAIN bound.bound \cap DOMAIN call.params = {}

\* C7: for records B and R with no key in common and every policy p,
\* bind(t, B).render(R, p) does what t.render(B \cup R, p) does (the same string,
\* or the same error when a slot key is in neither record), and
\* bind(t, B).toParts(R, p) gives the values of t.toParts(B \cup R, p).
C7_BoundEqualsUnbound ==
  /\ (IsCall("render", "bound") /\ BoundDisjoint) =>
       Let(render(chunks, slots, UnionRecord(bound.bound, call.params), call.policy),
           LAMBDA r :
             /\ call.ok = r.ok
             /\ call.error = r.error
             /\ call.value = r.value)
  /\ (IsCall("toParts", "bound") /\ BoundDisjoint) =>
       Let(toParts(chunks, slots, UnionRecord(bound.bound, call.params), call.policy),
           LAMBDA r :
             /\ call.ok = r.ok
             /\ call.error = r.error
             /\ call.value.values = r.value.values)

\* A wrapper bound to one key of a two-slot template rendered a record that
\* holds the other key.
C7_BoundRenderedTwoSlots ==
  /\ IsCall("render", "bound") /\ BoundDisjoint
  /\ call.ok
  /\ Len(slots) = 2 /\ slots[1].name # slots[2].name
  /\ DOMAIN call.params # {}
  /\ \A k \in 1..2 : slots[k].name \in DOMAIN bound.bound \cup DOMAIN call.params

\* C8: no call on a compiled template (render, toParts, toPartsRaw, formatTo,
\* tryRender, bind, concat, a call on a bound wrapper, whether it returns or
\* raises) and no write of the caller to the arrays and descriptors it reached
\* through a result changes the template's source, chunks or slot descriptors.
C8_TemplateUnchanged ==
  [][(compiled /\ call'.op # "compile") =>
       (source' = source /\ chunks' = chunks /\ slots' = slots)]_vars

\* The caller wrote to a slot descriptor it reached through a result.
C8_CallerWroteToDescriptor ==
  /\ compiled
  /\ Len(slots) > 0
  /\ call.op = "none" /\ call.wrote = "descriptor"

\* The filters the caller supplied with the call.
Supplied == IF call.policy.defined THEN call.policy.filters ELSE <<>>

\* What a filter name is to map to: the caller's function when the call
\* supplied one under that name, the built-in otherwise.
ExpectedFilter(name) ==
  IF name \in DOMAIN Supplied THEN Supplied[name] ELSE builtinFilters[name]

\* C9: the policy a render or toParts call resolves maps a filter name the
\* caller supplied to the caller's function, every other built-in name to the
\* built-in, and no other name (whatever earlier calls supplied); the filter a
\* slot runs is the one the name maps to; a call with no policy resolves to the
\* built-ins, no transform and the default String conversion.
C9_OverrideWinsBuiltinsStay ==
  IsEvaluation =>
    /\ DOMAIN Resolved.filters = DOMAIN builtinFilters \cup DOMAIN Supplied
    /\ \A name \in DOMAIN Resolved.filters : Resolved.filters[name] = ExpectedFilter(name)
    /\ \A i \in 1..Len(call.log) :
         (/\ call.log[i].fn = "filter"
          /\ slots[call.log[i].slot].filter \in DOMAIN Resolved.filters) =>
           call.log[i].callee = ExpectedFilter(slots[call.log[i].slot].filter)
    /\ (~call.ok /\ call.error.message = "Unknown filter") =>
         call.error.subject \notin DOMAIN builtinFilters \cup DOMAIN Supplied
    /\ ~call.policy.defined =>
         /\ Resolved.filters = builtinFilters
         /\ Resolved.transform = "undefined"
         /\ \A i \in 1..Len(call.log) :
              call.log[i].fn = "asString" =>
                call.log[i].out = Returns(Str(JsString(call.log[i].input)))

\* render ran the caller's function for a slot whose filter name is also the
\* name of a built-in.
C9_CustomUpperRan ==
  /\ IsCall("render", "template") /\ call.ok
  /\ \E i \in 1..Len(call.log) :
       /\ call.log[i].fn = "filter"
       /\ slots[call.log[i].slot].filter \in DOMAIN builtinFilters
       /\ call.log[i].callee.fn = "custom"

\* The policy of the call defines a transform hook.
Hooked == call.policy.defined /\ call.policy.transform # "undefined"

\* C10: under a policy that defines transform, render and toParts call the hook
\* once for each slot they evaluate, in slot order (for every slot when the call
\* returns), with the slot's descriptor and the raw record value; a slot's
\* filter runs after the hook of that slot and is given what the hook returned;
\* a slot with no filter yields what the hook returned.
C10_TransformOncePerSlotFirst ==
  (IsEvaluation /\ Hooked) =>
    LET T == CallsOf(call.log, "transform") IN
    /\ Len(T) <= Len(slots)
    /\ call.ok => Len(T) = Len(slots)
    /\ \A i \in 1..Len(T) :
         /\ T[i].slot = i
         /\ T[i].input = call.params[slots[i].name]
         /\ T[i].out = ApplyTransform(call.policy.transform, slots[i], T[i].input)
    /\ \A j \in 1..Len(call.log) :
         call.log[j].fn = "filter" =>
           \E i \in 1..(j - 1) :
             /\ call.log[i].fn = "transform"
             /\ call.log[i].slot = call.log[j].slot
             /\ call.log[i].out.ok
             /\ call.log[j].input = call.log[i].out.value
    /\ (IsCall("toParts", "template") /\ call.ok) =>
         \A k \in 1..Len(slots) :
           slots[k].filters = <<>> => call.value.values[k] = T[k].out.value

\* toParts returned under a hook that changed a value, for a template with a
\* slot that has a filter and a slot that has none.
C10_HookedTwoSlots ==
  /\ IsCall("toParts", "template") /\ call.ok /\ Hooked
  /\ Len(slots) = 2
  /\ \E k \in 1..2 : slots[k].filters = <<>>
  /\ \E k \in 1..2 : slots[k].filters # <<>>
  /\ \E k \in 1..2 :
       /\ slots[k].filters = <<>>
       /\ call.value.values[k] # call.params[slots[k].name]

\* The calls of a log that stringify or write to the sink.
IsOutputCall(e) == e.fn \in {"asString", "sink.text", "sink.value"}

\* The calls of a log that evaluate a slot.
IsEvaluationCall(e) == e.fn \in {"transform", "filter"}

\* What evaluating the slots of the template does under the call's record and policy.
Evaluated == evaluate(slots, call.params, Resolved)

\* C11: in render, toParts and formatTo every call of the transform hook and of
\* a filter comes before the first call of asString and of the sink; when the
\* evaluation of a slot fails, the call raises, asString and the sink are never
\* called, and nothing of a string is returned.
C11_EvaluateBeforeStringify ==
  (IsEvaluation \/ IsCall("formatTo", "module")) =>
    /\ \A i \in 1..Len(call.log) : \A j \in 1..Len(call.log) :
         (i < j /\ IsOutputCall(call.log[i])) => ~IsEvaluationCall(call.log[j])
    /\ IsCall("toParts", "template") =>
         \A i \in 1..Len(call.log) : ~IsOutputCall(call.log[i])
    /\ ~Evaluated.ok =>
         /\ ~call.ok
         /\ call.error = Evaluated.error
         /\ \A i \in 1..Len(call.log) : ~IsOutputCall(call.log[i])
         /\ ~IsCall("toParts", "template") => call.value = <<>>

\* formatTo raised on the second slot of a template after the first slot's
\* filter had run.
C11_FormatToFailedAfterFirstSlot ==
  /\ IsCall("formatTo", "module")
  /\ ~call.ok
  /\ Len(slots) = 2
  /\ \E i \in 1..Len(call.log) : call.log[i].fn = "filter" /\ call.log[i].slot = 1

\* The calls a log holds of fn for slot k.
SlotCalls(fn, k) == SelectSeq(call.log, LAMBDA e : e.fn = fn /\ e.slot = k)

\* The value of slot k after the transform hook and the filter the call ran on
\* it: what the last of these calls returned, the record's value when there was
\* none.
AfterFilters(k) ==
  LET filtered == SlotCalls("filter", k)
      hooked == SlotCalls("transform", k)
  IN IF Len(filtered) > 0 THEN filtered[Len(filtered)].out.value
     ELSE IF Len(hooked) > 0 THEN hooked[Len(hooked)].out.value
     ELSE call.params[slots[k].name]

MaxInspectPieces == 3

InspectPieces == {Chars(p) : p \in {"x", "{a}", "{b}", "{b|upper}"}}

RECURSIVE SourcesFrom(_, _)
SourcesFrom(pieces, n) ==
  IF n = 0 THEN {<<>>}
  ELSE LET shorter == SourcesFrom(pieces, n - 1) IN
       shorter \cup {s \o p : s \in shorter, p \in pieces}

InspectSources == SourcesFrom(InspectPieces, MaxInspectPieces)

InspectKeys == {KeyA, KeyB, <<"d">>}

\* The orders in which a caller writes down some of the keys.
KeyOrders ==
  {ks \in UNION {[1..n -> InspectKeys] : n \in 0..Cardinality(InspectKeys)} :
     \A i \in 1..Len(ks) : \A j \in 1..Len(ks) : i # j => ks[i] # ks[j]}

\* The records a caller asks about: the keys in an order, each holding a
\* string or each present and holding undefined.
InspectRecords ==
  {Tuple([i \in 1..Len(ks) |-> <<ks[i], v>>]) : ks \in KeyOrders, v \in {Hi, Undefined}}

\* The names a caller asks hasSlot about.
InspectNames == InspectKeys \cup {Chars("toString")}

InspectPolicies ==
  {NoPolicy, Policy(Chars("upper") :> CustomFn("boom"), "failOnB", "undefined")}

\* What a call that returns v and calls nothing does.
Result(v) == [ok |-> TRUE, error |-> NoError, value |-> v, log |-> <<>>]

InspectCompile ==
  /\ call.op = "none" /\ call.wrote = "none"
  /\ \E src \in InspectSources : Install(src, compile(src))

SlotNames ==
  /\ call.op = "none" /\ call.wrote = "none"
  /\ compiled
  /\ call' = Call("slotNames", "module", <<>>, NoPolicy, Result(slotNames(slots)))
  /\ UNCHANGED <<source, chunks, slots, compiled, frozen, bound>>

HasSlot ==
  /\ call.op = "none" /\ call.wrote = "none"
  /\ compiled
  /\ \E name \in InspectNames :
       call' = Call("hasSlot", "module", name, NoPolicy, Result(Bool(hasSlot(slots, name))))
  /\ UNCHANGED <<source, chunks, slots, compiled, frozen, bound>>

MissingKeys ==
  /\ call.op = "none" /\ call.wrote = "none"
  /\ compiled
  /\ \E params \in InspectRecords :
       call' = Call("missingKeys", "module", params, NoPolicy,
                    Result(missingKeys(slots, params)))
  /\ UNCHANGED <<source, chunks, slots, compiled, frozen, bound>>

ExtraKeys ==
  /\ call.op = "none" /\ call.wrote = "none"
  /\ compiled
  /\ \E params \in InspectRecords :
       call' = Call("extraKeys", "module", params, NoPolicy,
                    Result(extraKeys(slots, params)))
  /\ UNCHANGED <<source, chunks, slots, compiled, frozen, bound>>

Validate ==
  /\ call.op = "none" /\ call.wrote = "none"
  /\ compiled
  /\ \E params \in InspectRecords :
       call' = Call("validate", "module", params, NoPolicy,
                    Result(validate(slots, params)))
  /\ UNCHANGED <<source, chunks, slots, compiled, frozen, bound>>

\* t.render(params, policy) with a record the caller also asks about.
InspectRender ==
  /\ call.op = "none" /\ call.wrote = "none"
  /\ compiled
  /\ \E params \in InspectRecords, policy \in InspectPolicies :
       call' = Call("render", "template", params, policy,
                    render(chunks, slots, Properties(params), policy))
  /\ UNCHANGED <<source, chunks, slots, compiled, frozen, bound>>

InspectNext ==
  \/ InspectCompile
  \/ SlotNames
  \/ HasSlot
  \/ MissingKeys
  \/ ExtraKeys
  \/ Validate
  \/ InspectRender
  \/ Return

InspectSpec == Init /\ [][InspectNext]_vars

\* The error is the missing-value error of evaluate.
IsMissingError(e) == e.message = "Missing value for slot"

\* C12: when missingKeys(t, r) is empty, render(t, r, p) raises no missing-value
\* error; when it is not empty, render raises, returns no string, and a
\* missing-value error it raises names an element of missingKeys(t, r).
C12_MissingKeysForetellsRender ==
  IsCall("render", "template") =>
    LET missing == missingKeys(slots, call.params) IN
    /\ Len(missing) = 0 => ~(~call.ok /\ IsMissingError(call.error))
    /\ Len(missing) > 0 =>
         /\ ~call.ok
         /\ call.value = <<>>
         /\ IsMissingError(call.error) => call.error.subject \in Range(missing)

\* render raised the error of the transform hook on a record that lacks a key
\* of a later slot.
C12_HookErrorBeforeMissingKey ==
  /\ IsCall("render", "template")
  /\ Len(missingKeys(slots, call.params)) > 0
  /\ ~call.ok
  /\ ~IsMissingError(call.error)

\* The names of the template's slots.
DistinctNames == {slots[k].name : k \in 1..Len(slots)}

\* The slot at which a name appears first.
FirstAppearance(name) ==
  CHOOSE k \in 1..Len(slots) :
    slots[k].name = name /\ \A j \in 1..(k - 1) : slots[j].name # name

\* out lists each slot name once, in the order of first appearance.
InFirstAppearanceOrder(out) ==
  /\ Range(out) = DistinctNames
  /\ \A i \in 1..Len(out) : \A j \in 1..Len(out) :
       i < j => FirstAppearance(out[i]) < FirstAppearance(out[j])

\* The elements of seq that are not in set, in the order of seq.
Without(seq, set) == SelectSeq(seq, LAMBDA e : e \notin set)

\* C13: slotNames(t) lists each distinct slot name once in order of first
\* appearance; missingKeys(t, r) is the elements of slotNames(t) that are not
\* keys of r, in that order; extraKeys(t, r) is the keys of r that are not slot
\* names, in r's key order; validate(t, r).ok is true exactly when both lists
\* are empty; hasSlot(t, n) is true exactly when n is in slotNames(t).
C13_HelpersAgreeWithSlotNames ==
  /\ IsCall("slotNames", "module") => InFirstAppearanceOrder(call.value)
  /\ IsCall("missingKeys", "module") =>
       /\ InFirstAppearanceOrder(slotNames(slots))
       /\ call.value = Without(slotNames(slots), Range(ObjectKeys(call.params)))
  /\ IsCall("extraKeys", "module") =>
       call.value = Without(ObjectKeys(call.params), DistinctNames)
  /\ IsCall("validate", "module") =>
       /\ call.value.missing = missingKeys(slots, call.params)
       /\ call.value.extra = extraKeys(slots, call.params)
       /\ call.value.ok <=> (call.value.missing = <<>> /\ call.value.extra = <<>>)
  /\ IsCall("hasSlot", "module") =>
       /\ InFirstAppearanceOrder(slotNames(slots))
       /\ call.value = Bool(call.params \in Range(slotNames(slots)))

\* validate found a missing key and an extra key on a template that names a
\* slot twice.
C13_ValidateFoundMissingAndExtra ==
  /\ IsCall("validate", "module")
  /\ ~call.value.ok
  /\ call.value.missing # <<>>
  /\ call.value.extra # <<>>
  /\ Len(slotNames(slots)) = 2
  /\ Len(slots) = 3

(***************************************************************************)
(* concat: one caller that joins the template at hand with another and     *)
(* renders the result                                                      *)
(***************************************************************************)

\* What a call that raises e does.
Raised(e) == [ok |-> FALSE, error |-> e, value |-> <<>>, log |-> <<>>]

\* concat(t, compile(other)).render(params)
renderConcat(src, other, params, policy) ==
  Let(concat(src, other), LAMBDA c :
    IF c.ok THEN render(c.value.chunks, c.value.slots, params, policy)
    ELSE Raised(c.error))

ConcatRender ==
  /\ call.op = "none" /\ call.wrote = "none"
  /\ compiled
  /\ \E other \in SourcesOf(1), params \in Records :
       /\ compile(other).ok
       /\ call' = Call("render", "concat", [record |-> params, other |-> other],
                       NoPolicy, renderConcat(source, other, params, NoPolicy))
  /\ UNCHANGED <<source, chunks, slots, compiled, frozen, bound>>

ConcatNext ==
  \/ Compile
  \/ ConcatRender
  \/ Return

ConcatSpec == Init /\ [][ConcatNext]_vars

\* The template compile(src) returns.
TemplateOf(src) == compile(src).value

\* The record holds the key of every slot of ss.
HoldsEveryKey(record, ss) == \A k \in 1..Len(ss) : ss[k].name \in DOMAIN record

\* C15: for compiled templates A and B and a record r holding every slot key of
\* both, concat(A, B).render(r) is A.render(r) followed by B.render(r), where
\* the two render.
C15_ConcatRendersBothInOrder ==
  (/\ IsCall("render", "concat")
   /\ HoldsEveryKey(call.params.record, slots)
   /\ HoldsEveryKey(call.params.record, TemplateOf(call.params.other).slots)) =>
    LET first == render(chunks, slots, call.params.record, NoPolicy)
        second == render(TemplateOf(call.params.other).chunks,
                         TemplateOf(call.params.other).slots,
                         call.params.record, NoPolicy)
    IN (first.ok /\ second.ok) =>
         (call.ok /\ call.value = first.value \o second.value)

(***************************************************************************)
(* compile on sources written brace by brace                               *)
(***************************************************************************)

\* A source is at most MaxParsePieces of these pieces, one after the other.
MaxParsePieces == 5

ParsePieces == {Chars(p) : p \in {"{", "}", "\\", "a", "a|u#"}}

ParseSources == SourcesFrom(ParsePieces, MaxParsePieces)

\* The caller has a source in hand and no template yet.
ParseInit ==
  /\ source \in ParseSources
  /\ chunks = <<>>
  /\ slots = <<>>
  /\ compiled = FALSE
  /\ frozen = {}
  /\ bound = NoBound
  /\ call = Idle

ParseCompile ==
  /\ call.op = "none" /\ call.wrote = "none"
  /\ ~compiled
  /\ Install(source, compile(source))

ParseNext ==
  \/ ParseCompile
  \/ Return

ParseSpec == ParseInit /\ [][ParseNext]_vars

\* The character at position p (1-based) follows a backslash that is not
\* itself escaped.
RECURSIVE IsEscaped(_, _)
IsEscaped(s, p) == p > 1 /\ s[p - 1] = "\\" /\ ~IsEscaped(s, p - 1)

\* The positions of the unescaped braces of s, in order.
UnescapedBraces(s) ==
  SelectSeq(Tuple([p \in 1..Len(s) |-> p]),
            LAMBDA p : s[p] \in {"{", "}"} /\ ~IsEscaped(s, p))

\* The slots of s read off its unescaped braces from the n-th on: open is the
\* position of the '{' of the slot being read (0 in text), found the
\* <<open, close>> positions of the slots read so far.
RECURSIVE SlotExtents(_, _, _, _, _)
SlotExtents(s, braces, n, open, found) ==
  IF n > Len(braces)
    THEN [found |-> found, status |-> IF open = 0 THEN "closed" ELSE "unmatched"]
  ELSE IF open = 0
    THEN SlotExtents(s, braces, n + 1,
                     IF s[braces[n]] = "{" THEN braces[n] ELSE 0, found)
  ELSE IF s[braces[n]] = "{"
    THEN [found |-> found, status |-> "nested"]
  ELSE SlotExtents(s, braces, n + 1, 0, Append(found, <<open, braces[n]>>))

ExtentsOf(s) == SlotExtents(s, UnescapedBraces(s), 1, 0, <<>>)

\* The text of s between the braces of an extent.
BodyOf(s, extent) == SubSeq(s, extent[1] + 1, extent[2] - 1)

\* C16: a slot runs from an unescaped '{' to the next unescaped '}', escaped
\* braces inside it neither nest nor close it; compile raises and returns no
\* template when a second unescaped '{' comes before the closing '}' and when
\* the source ends before an unescaped closing '}'.
C16_SlotExtentAndBraceErrors ==
  IsCall("compile", "module") =>
    LET ext == ExtentsOf(call.params) IN
    /\ ext.status \in {"nested", "unmatched"} => (~call.ok /\ ~compiled)
    /\ (ext.status = "closed" /\ call.ok) =>
         /\ Len(call.value.slots) = Len(ext.found)
         /\ \A k \in 1..Len(ext.found) :
              LET sb == parseSlotBody(BodyOf(call.params, ext.found[k])) IN
              sb.ok /\ call.value.slots[k] = sb.slot
    /\ (ext.status = "closed" /\ ~call.ok) =>
         \E k \in 1..Len(ext.found) :
           LET sb == parseSlotBody(BodyOf(call.params, ext.found[k])) IN
           ~sb.ok /\ call.error = sb.error

\* compile returned a template whose slot holds an escaped '}' in its body.
C16_EscapedBraceInsideSlot ==
  /\ IsCall("compile", "module")
  /\ call.ok
  /\ Len(call.value.slots) = 1
  /\ call.value.slots[1].args = <<<<"}">>>>

\* compile raised on a slot that ends in a lone backslash.
C16_LoneBackslashEndsSource ==
  /\ IsCall("compile", "module")
  /\ ~call.ok
  /\ call.params = Chars("{a\\")

(***************************************************************************)
(* The built-in filters called on their own                                *)
(***************************************************************************)

\* What a call of a filter that returned or raised r did.
Outcome(r) == IF r.ok THEN Result(r.value) ELSE Raised(r.error)

\* A path is at most MaxPathSegments of these segments, joined by dots.
MaxPathSegments == 2

PathSegments == {Chars(p) : p \in {"a", "b", "0", "1", "-1", "toString", "", " "}}

RECURSIVE PathsOf(_)
PathsOf(n) ==
  IF n = 1 THEN PathSegments
  ELSE LET shorter == PathsOf(n - 1) IN
       shorter \cup {p \o <<".">> \o seg : p \in shorter, seg \in PathSegments}

\* The argument lists path is called with: none, a path, a path and a fallback.
PathArgs ==
  {<<>>} \cup {<<p>> : p \in PathsOf(MaxPathSegments)}
         \cup {<<p, Chars("none")>> : p \in PathsOf(MaxPathSegments)}

\* The values path is called on.
PathValues ==
  {Undefined, Null, Hi, Num(7), Rec(<<>>),
   Rec(KeyA :> Rec(KeyB :> Hi)),
   Rec((KeyA :> Null) @@ (KeyB :> Undefined)),
   Rec(KeyA :> Arr(<<Num(7), Hi>>)),
   Arr(<<Rec(KeyA :> Hi), Null>>)}

PathFilter ==
  /\ call.op = "none" /\ call.wrote = "none"
  /\ \E v \in PathValues, args \in PathArgs :
       call' = Call("path", "builtinFilters", [args |-> args, value |-> v], NoPolicy,
                    Outcome(path(v, args)))
  /\ UNCHANGED <<source, chunks, slots, compiled, frozen, bound>>

\* A map body is at most MaxMapPieces of these pieces, one after the other.
MaxMapPieces == 2

MapPieces == {Chars(p) : p \in {"$x$", "$x.a$", "$x.a.b$", "$x.toString$", "-"}}

\* The argument lists map is called with: a binding and a body, and the ways
\* of leaving one of them out.
MapArgs ==
  {<<Chars("x => ") \o body>> : body \in SourcesFrom(MapPieces, MaxMapPieces) \ {<<>>}}
  \cup {<<>>, <<<<>>>>}
  \cup {<<Chars(a)>> : a \in {"x $x$", " => $x$", "x =>", "1x => $x$", "x y => $x$"}}

MapElements ==
  {Hi, Num(7), Null, Str(Chars("$&")), Str(Chars("$x.a$")), Rec(<<>>), Rec(KeyA :> Hi),
   Rec(KeyA :> Rec(KeyB :> Hi))}

\* The arrays map is called on hold at most MaxMapItems elements.
MaxMapItems == 2

MapValues ==
  {Hi, Undefined}
  \cup {Arr(items) : items \in UNION {[1..n -> MapElements] : n \in 0..MaxMapItems}}

MapFilter ==
  /\ call.op = "none" /\ call.wrote = "none"
  /\ \E v \in MapValues, args \in MapArgs :
       call' = Call("map", "builtinFilters", [args |-> args, value |-> v], NoPolicy,
                    Outcome(map(v, args)))
  /\ UNCHANGED <<source, chunks, slots, compiled, frozen, bound>>

\* The argument lists pad is called with: none, a length, a length and a fill.
PadLengths == {Chars(n) : n \in {"0", "1", "3", "5", "-1", "x", ""}}

PadArgs ==
  {<<>>} \cup {<<n>> : n \in PadLengths}
         \cup {<<n, Chars(fill)>> : n \in PadLengths, fill \in {"0", "ab", ""}}

PadValues == {Hi, Num(7), Str(<<>>), Str(Chars("hello")), Null}

PadFilter ==
  /\ call.op = "none" /\ call.wrote = "none"
  /\ \E v \in PadValues, args \in PadArgs :
       call' = Call("pad", "builtinFilters", [args |-> args, value |-> v], NoPolicy,
                    Outcome(pad(v, args)))
  /\ UNCHANGED <<source, chunks, slots, compiled, frozen, bound>>

FilterNext ==
  \/ PathFilter
  \/ MapFilter
  \/ PadFilter
  \/ Return

FilterSpec == Init /\ [][FilterNext]_vars

\* The segments a path argument is written with.
SegmentsOf(pathArg) ==
  LET raw == split(pathArg, ".") IN Tuple([i \in 1..Len(raw) |-> trim(raw[i])])

\* The argument list holds a path of non-empty segments.
WellFormedPath(args) ==
  /\ Len(args) > 0
  /\ args[1] # <<>>
  /\ \A i \in 1..Len(SegmentsOf(args[1])) : SegmentsOf(args[1])[i] # <<>>

\* The segment is written as a non-negative integer.
IsIndex(seg) == seg # <<>> /\ \A i \in 1..Len(seg) : seg[i] \in Range(Digits)

\* One step of a path: the property of an object under the key it holds, the
\* element of an array at a non-negative integer index; "nothing" when the step
\* meets null, undefined, a primitive, another segment on an array, or a key or
\* index that is missing.
StepOf(current, seg) ==
  IF current.k = "record"
    THEN IF seg \in DOMAIN current.props THEN current.props[seg] ELSE Undefined
  ELSE IF current.k = "array"
    THEN IF IsIndex(seg) /\ DigitsToNat(seg, 0) < Len(current.items)
           THEN current.items[DigitsToNat(seg, 0) + 1] ELSE Undefined
  ELSE Undefined

RECURSIVE Follow(_, _, _)
Follow(current, segments, n) ==
  IF n > Len(segments) THEN current
  ELSE Follow(StepOf(current, segments[n]), segments, n + 1)

\* C17: given a path of non-empty segments, path never raises; it returns the
\* value reached by following the segments, and the fallback argument (the
\* empty string without one) when a step meets null, undefined, a primitive, an
\* array with a segment that is not a non-negative integer, or a missing key.
\* It raises only without a path argument, with an empty one, or with a segment
\* that is empty after trimming.
C17_PathFollowsOrFallsBack ==
  IsCall("path", "builtinFilters") =>
    LET v == call.params.value
        args == call.params.args
    IN /\ call.ok <=> WellFormedPath(args)
       /\ WellFormedPath(args) =>
            LET reached == Follow(v, SegmentsOf(args[1]), 1) IN
            call.value = IF reached # Undefined THEN reached
                         ELSE IF Len(args) > 1 THEN Str(args[2])
                         ELSE Str(<<>>)

\* The argument written binding => body: what stands before and after the
\* first =>, trimmed.
ArrowAt(arg) ==
  CHOOSE p \in 1..Len(arg) :
    startsWithAt(arg, p, <<"=", ">">>)
    /\ \A q \in 1..(p - 1) : ~startsWithAt(arg, q, <<"=", ">">>)

HasArrow(arg) == \E p \in 1..Len(arg) : startsWithAt(arg, p, <<"=", ">">>)

BindingOf(arg) == trim(SubSeq(arg, 1, ArrowAt(arg) - 1))

MapBodyOf(arg) == trim(SubSeq(arg, ArrowAt(arg) + 2, Len(arg)))

IsIdentifier(name) ==
  /\ name # <<>>
  /\ name[1] \in Range(LowerCase) \cup Range(UpperCase) \cup {"_"}
  /\ \A i \in 1..Len(name) :
       name[i] \in Range(LowerCase) \cup Range(UpperCase) \cup Range(Digits) \cup {"_"}

\* The call of map is one the claim has raise.
MapMustRaise(v, args) ==
  \/ Len(args) = 0
  \/ args[1] = <<>>
  \/ v.k # "array"
  \/ ~HasArrow(args[1])
  \/ ~IsIdentifier(BindingOf(args[1]))
  \/ MapBodyOf(args[1]) = <<>>

\* body holds, from position p on, the keys k1.k2... of a $binding.k1.k2...$
\* that ends right before position e.
IsKeyPath(body, p, e) ==
  /\ p < e /\ e <= Len(body)
  /\ body[e] = "$"
  /\ \A i \in p..(e - 1) :
       \/ IsIdentifier(<<"_", body[i]>>)
       \/ /\ body[i] = "."
          /\ i > p /\ i < e - 1
          /\ body[i - 1] # "." /\ body[i + 1] # "."

\* The property reached from item through the keys, as text: the empty string
\* when a key is missing.
PropertyText(item, keys) ==
  LET reached == Follow(item, keys, 1) IN
  IF reached = Undefined THEN <<>> ELSE JsString(reached)

\* body with every $binding$ replaced by the item's string form and every
\* $binding.k1.k2...$ by the property reached through the keys, from position
\* p on.
RECURSIVE Substitute(_, _, _, _)
Substitute(body, binding, item, p) ==
  IF p > Len(body) THEN <<>>
  ELSE IF startsWithAt(body, p, <<"$">> \o binding \o <<"$">>)
    THEN JsString(item) \o Substitute(body, binding, item, p + Len(binding) + 2)
  ELSE
    LET from == p + Len(binding) + 2 IN
    IF /\ startsWithAt(body, p, <<"$">> \o binding \o <<".">>)
       /\ \E e \in from..Len(body) : IsKeyPath(body, from, e)
      THEN LET e == CHOOSE e \in from..Len(body) : IsKeyPath(body, from, e) IN
           PropertyText(item, split(SubSeq(body, from, e - 1), "."))
           \o Substitute(body, binding, item, e + 1)
      ELSE <<body[p]>> \o Substitute(body, binding, item, p + 1)

\* C18: map, given an array and an argument binding => body, returns an array
\* of one rendered string per element, in order, every $binding$ of the body
\* replaced by the element's string form and every $binding.k1.k2...$ by the
\* property reached through the keys (the empty string if a key is missing);
\* it raises a map-prefixed error when the argument is missing, the input is
\* not an array, => is absent, the binding is empty or no identifier, or the
\* body is empty.
C18_MapRendersEachElement ==
  IsCall("map", "builtinFilters") =>
    LET v == call.params.value
        args == call.params.args
    IN IF MapMustRaise(v, args)
         THEN ~call.ok /\ startsWithAt(Chars(call.error.message), 1, Chars("map:"))
         ELSE /\ call.ok
              /\ call.value =
                   Arr(Tuple([i \in 1..Len(v.items) |->
                                Str(Substitute(MapBodyOf(args[1]), BindingOf(args[1]),
                                               v.items[i], 1))]))

\* The length pad is asked for, written as an optionally signed integer (0
\* when it is left out or empty).
TargetLength(args) == IF Len(args) > 0 THEN JsNumber(args[1]) ELSE JsNumber(<<"0">>)

\* The character pad fills with: the first of the fill argument, a space
\* when there is none.
FillCharacter(args) == IF Len(args) > 1 /\ args[2] # <<>> THEN args[2][1] ELSE " "

MaxChain == 3

\* An argument list as it is written after a filter's name, and the arguments
\* it writes down.
Written(text, args) == [args |-> args, written |-> Chars(text)]

ArgLists ==
  {Written("", <<>>),
   Written("#1", <<Chars("1")>>),
   Written("#a,b", <<Chars("a"), Chars("b")>>),
   Written(" #a,b", <<Chars("a"), Chars("b")>>),
   Written("#'x|y'", <<Chars("x|y")>>),
   Written("#a\\|b", <<Chars("a|b")>>),
   Written("#a,", <<Chars("a"), <<>>>>)}

\* The filters of a chain: a name and an argument list.
ChainFilters ==
  {[args |-> a.args, name |-> Chars(f), written |-> a.written] :
     a \in ArgLists, f \in {"f", "g"}}

Chains == UNION {[1..k -> ChainFilters] : k \in 1..MaxChain}

\* {n|f1#A1|...|fk#Ak} as the chain writes it.
RECURSIVE ChainText(_)
ChainText(chain) ==
  IF chain = <<>> THEN <<>>
  ELSE <<"|">> \o Head(chain).name \o Head(chain).written \o ChainText(Tail(chain))

SlotText(chain) == Chars("{n") \o ChainText(chain) \o <<"}">>

\* compile of a source that is one slot with a chain of filters.
ChainCompile ==
  /\ call.op = "none" /\ call.wrote = "none"
  /\ ~compiled
  /\ \E chain \in Chains :
       Let(compile(SlotText(chain)), LAMBDA c :
         /\ call' = Call("compile", "chain", chain, NoPolicy, c)
         /\ IF c.ok
              THEN /\ source' = c.value.source
                   /\ chunks' = c.value.chunks
                   /\ slots' = c.value.slots
                   /\ compiled' = TRUE
                   /\ frozen' = freeze("chunks") \cup freeze("slots")
                                  \cup freeze("descriptor") \cup freeze("args")
                   /\ bound' = NoBound
              ELSE UNCHANGED <<source, chunks, slots, compiled, frozen, bound>>)

ChainNext ==
  \/ ChainCompile
  \/ Return

ChainSpec == Init /\ [][ChainNext]_vars

WrittenCompile(sources) ==
  /\ call.op = "none" /\ call.wrote = "none"
  /\ ~compiled
  /\ \E w \in sources :
       Let(compile(w.text), LAMBDA c :
         /\ call' = Call("compile", "written", w, NoPolicy, c)
         /\ IF c.ok
              THEN /\ source' = c.value.source
                   /\ chunks' = c.value.chunks
                   /\ slots' = c.value.slots
                   /\ compiled' = TRUE
                   /\ frozen' = freeze("chunks") \cup freeze("slots")
                                  \cup freeze("descriptor") \cup freeze("args")
                   /\ bound' = NoBound
              ELSE UNCHANGED <<source, chunks, slots, compiled, frozen, bound>>)

\* A slot body has at most MaxBodyFilters filters.
MaxBodyFilters == 2

\* The text written around the name and around each filter name.
Spaces == {<<>>, <<" ">>, <<"TAB", " ">>}

RECURSIVE FiltersText(_, _)
FiltersText(names, space) ==
  IF names = <<>> THEN <<>>
  ELSE <<"|">> \o space \o Head(names) \o space \o FiltersText(Tail(names), space)

\* A slot body written as a name, perhaps '#1' right after it, filter names
\* and what is left after them, with the same space around every name.
Bodies ==
  {[rest |-> Chars(r), filters |-> fs, name |-> Chars(n),
    text |-> <<"{">> \o sp \o Chars(n) \o sp \o (IF h THEN Chars("#1") ELSE <<>>)
               \o FiltersText(fs, sp) \o Chars(r) \o <<"}">>,
    space |-> sp, hash |-> h] :
     n \in {"a", "_b1", "", "1", "-"},
     fs \in UNION {[1..k -> {Chars(f) : f \in {"f", "", "2"}}] : k \in 0..MaxBodyFilters},
     h \in BOOLEAN, r \in {"", " ", " -", "-"}, sp \in Spaces}

BodyCompile == WrittenCompile(Bodies)

BodyNext ==
  \/ BodyCompile
  \/ Return

BodySpec == Init /\ [][BodyNext]_vars

\* The body the caller wrote is one the claim has compile refuse.
BodyMustRaise(w) ==
  \/ ~IsIdentifier(w.name)
  \/ \E i \in 1..Len(w.filters) : ~IsIdentifier(w.filters[i])
  \/ w.hash
  \/ \E i \in 1..Len(w.rest) : w.rest[i] \notin {" ", "TAB"}

MaxWrittenArgs == 2

\* What an argument is written as between its separators: plain text, text
\* that only quotes can hold, and text with backslash escapes.
PlainContents == {Chars(c) : c \in {"a", "a b"}}

QuotedContents == {Chars(c) : c \in {" a ", "a,b", "a|b"}}

EscapedContents ==
  {Chars(c) : c \in {"\\\\n", "\\n", "\\,", "\\#", "\\|", "\\\"", "\\'"}}

\* One written argument: whitespace, an opening quote or none, the content,
\* the matching closing quote, whitespace.
WrittenArgs ==
  {[lead |-> l, quote |-> q, content |-> c, trail |-> t] :
     l \in {<<>>, <<" ">>}, q \in {""}, c \in PlainContents \cup EscapedContents,
     t \in {<<>>, <<" ">>}}
  \cup
  {[lead |-> l, quote |-> q, content |-> c, trail |-> t] :
     l \in {<<>>, <<" ">>}, q \in {"\"", "'"},
     c \in PlainContents \cup QuotedContents \cup EscapedContents,
     t \in {<<>>, <<" ">>}}

ArgText(a) ==
  a.lead \o (IF a.quote = "" THEN a.content
             ELSE <<a.quote>> \o a.content \o <<a.quote>>) \o a.trail

RECURSIVE ArgsText(_)
ArgsText(items) ==
  IF Len(items) = 1 THEN ArgText(items[1])
  ELSE ArgText(Head(items)) \o <<",">> \o ArgsText(Tail(items))

\* {x|f#A1,...,Ak} and {x|f#A1,...,Ak|g} as the arguments write it.
ArgSources ==
  {[items |-> items,
    text |-> Chars("{x|f#") \o ArgsText(items) \o tail \o <<"}">>,
    tail |-> tail] :
     items \in UNION {[1..k -> WrittenArgs] : k \in 1..MaxWrittenArgs},
     tail \in {<<>>, Chars("|g")}}

ArgCompile == WrittenCompile(ArgSources)

ArgNext ==
  \/ ArgCompile
  \/ Return

ArgSpec == Init /\ [][ArgNext]_vars

IsArgCompile == IsCall("compile", "written") /\ "items" \in DOMAIN call.params

\* The arguments compile stored for the filter f.
StoredArgs == call.value.slots[1].filters[1].args

HasEscape(a) == "\\" \in Range(a.content)

\* C22: an unquoted filter argument without an escape sequence is stored with
\* its leading and its trailing whitespace removed, and with the whitespace
\* inside it kept.
C22_UnquotedArgTrimmed ==
  IsArgCompile =>
    /\ call.ok
    /\ Len(StoredArgs) = Len(call.params.items)
    /\ \A k \in 1..Len(call.params.items) :
         LET a == call.params.items[k] IN
         (a.quote = "" /\ ~HasEscape(a)) => StoredArgs[k] = a.content

\* The content of a written argument with each backslash escape decoded once.
DecodedOnce(a) == decodeArgLoop(a.content, 0, <<>>)

\* The filters compile stored for the slot: f, and g when |g is written.
FiltersWritten ==
  /\ call.ok
  /\ Len(call.value.slots) = 1
  /\ Len(call.value.slots[1].filters) = (IF call.params.tail = <<>> THEN 1 ELSE 2)
  /\ Len(StoredArgs) = Len(call.params.items)

\* C23: the value of a quoted filter argument is exactly the escape-decoded
\* characters between its quotes: whitespace, commas and pipes between the
\* quotes are content and split nothing, and whitespace between the closing
\* quote and the next comma, pipe or end of body is not part of the value.
C23_QuotedArgIsWhatTheQuotesHold ==
  IsArgCompile =>
    /\ FiltersWritten
    /\ \A k \in 1..Len(call.params.items) :
         LET a == call.params.items[k] IN
         a.quote # "" => StoredArgs[k] = DecodedOnce(a)

\* C24: within a filter argument each backslash escape is decoded exactly
\* once, an escaped backslash followed by n giving backslash and n, and an
\* escaped comma, hash, pipe or quote is content of the argument: it separates
\* no arguments, starts no filter and delimits no quote.
C24_ArgEscapeDecodedOnce ==
  IsArgCompile =>
    /\ FiltersWritten
    /\ \A k \in 1..Len(call.params.items) :
         LET a == call.params.items[k] IN
         (HasEscape(a) /\ a.trail = <<>>) => StoredArgs[k] = DecodedOnce(a)

(***************************************************************************)
(* compile on literal text written piece by piece                          *)
(***************************************************************************)

\* A source is written as at most MaxTextPieces pieces.
MaxTextPieces == 3

\* The characters written after a backslash.
EscapeLetters == Chars("nrtbfv0\\{}\"'a,|")

\* A piece of a source: a plain character, a backslash and a character, or a
\* slot.
TextPieces ==
  {[written |-> <<"a">>, kind |-> "plain"], [written |-> Chars("{x}"), kind |-> "slot"]}
  \cup {[written |-> <<"\\", c>>, kind |-> "escape"] : c \in Range(EscapeLetters)}

RECURSIVE PiecesText(_)
PiecesText(pieces) ==
  IF pieces = <<>> THEN <<>> ELSE Head(pieces).written \o PiecesText(Tail(pieces))

\* The pieces one after another, and a last backslash with nothing after it.
TextSources ==
  {[text |-> PiecesText(ps) \o (IF b THEN <<"\\">> ELSE <<>>), pieces |-> ps, last |-> b] :
     ps \in UNION {[1..k -> TextPieces] : k \in 0..MaxTextPieces}, b \in BOOLEAN}

TextCompile == WrittenCompile(TextSources)

TextNext ==
  \/ TextCompile
  \/ Return

TextSpec == Init /\ [][TextNext]_vars

IsTextCompile == IsCall("compile", "written") /\ "pieces" \in DOMAIN call.params

\* The one character a backslash followed by c stands for.
EscapedCharacter(c) ==
  CASE c = "n" -> "LF" [] c = "r" -> "CR" [] c = "t" -> "TAB" [] c = "b" -> "BS"
    [] c = "f" -> "FF" [] c = "v" -> "VT" [] c = "0" -> "NUL"
    [] OTHER -> c

\* The chunks the pieces write: the text between the slots, run by run, a run
\* being listed when it holds a character.
RECURSIVE TextRuns(_, _, _)
TextRuns(pieces, last, run) ==
  IF pieces = <<>>
    THEN LET end == IF last THEN Append(run, "\\") ELSE run
         IN IF end = <<>> THEN <<>> ELSE <<end>>
  ELSE LET p == Head(pieces) IN
    IF p.kind = "slot"
      THEN (IF run = <<>> THEN <<>> ELSE <<run>>) \o TextRuns(Tail(pieces), last, <<>>)
    ELSE IF p.kind = "escape"
      THEN TextRuns(Tail(pieces), last, Append(run, EscapedCharacter(p.written[2])))
    ELSE TextRuns(Tail(pieces), last, run \o p.written)

SlotPieces(pieces) == {i \in 1..Len(pieces) : pieces[i].kind = "slot"}

\* C25: in literal text outside slots a backslash followed by a character c
\* contributes exactly one character to the chunk, the control, brace,
\* backslash or quote character for c among n r t b f v 0 \ { } " ' and c
\* itself otherwise; an escaped { opens no slot, and a backslash that is the
\* last character of the source is kept.
C25_TextEscapeIsOneCharacter ==
  IsTextCompile =>
    /\ call.ok
    /\ call.value.chunks = TextRuns(call.params.pieces, call.params.last, <<>>)
    /\ Len(call.value.slots) = Cardinality(SlotPieces(call.params.pieces))

\* compile read an escaped n, an escaped { and a last lone backslash as one
\* chunk of three characters.
C25_EscapedBraceAndLastBackslash ==
  /\ IsTextCompile
  /\ call.ok
  /\ call.params.text = Chars("\\n\\{\\")
  /\ call.value.chunks = <<<<"LF", "{", "\\">>>>
  /\ call.value.slots = <<>>

(***************************************************************************)
(* formatTo and render                                                     *)
(***************************************************************************)

\* The calls formatTo made of the sink, in call order.
SinkCalls == SelectSeq(call.log, LAMBDA e : e.fn \in {"sink.text", "sink.value"})

\* The strings a sequence of sink calls was given, one after another.
RECURSIVE SinkText(_)
SinkText(s) == IF s = <<>> THEN <<>> ELSE Head(s).input.s \o SinkText(Tail(s))

\* C26: formatTo calls sink.text and sink.value in strict alternation, first
\* and last sink.text: text slots.length + 1 times and value slots.length
\* times, value i with the stringified value of slot i; the strings the sink
\* was given, joined in call order, are what render returns for the same
\* template, record and policy. formatTo raises when render raises, with the
\* same error.
C26_FormatToWritesWhatRenderReturns ==
  IsCall("formatTo", "module") =>
    Let(render(chunks, slots, call.params, call.policy), LAMBDA r :
      /\ call.ok = r.ok
      /\ ~r.ok => call.error = r.error
      /\ r.ok =>
           LET s == SinkCalls
               n == Len(slots)
           IN /\ Len(s) = 2 * n + 1
              /\ \A j \in 1..Len(s) :
                   s[j].fn = IF j % 2 = 1 THEN "sink.text" ELSE "sink.value"
              /\ \A i \in 1..n :
                   s[2 * i].input =
                     Str(ApplyAsString(Resolved.asString, Evaluated.values[i]).value)
              /\ SinkText(s) = r.value)

\* formatTo wrote two slots under a policy with its own asString and a hook:
\* five calls of the sink, text around every value.
C26_FormatToWroteTwoSlots ==
  /\ IsCall("formatTo", "module")
  /\ call.ok
  /\ Len(slots) = 2
  /\ call.policy.defined /\ call.policy.asString = "angle"
  /\ Len(SinkCalls) = 5
  /\ SinkCalls[1].input.s # <<>>

(***************************************************************************)
(* The order of failures in render                                         *)
(***************************************************************************)

\* What slot k does taken by itself under the call's record and policy: the
\* key, then the hook, then the filter's lookup, then the filter.
SlotOutcome(k) ==
  LET slot == slots[k] IN
  IF slot.name \notin DOMAIN call.params
    THEN Throws(Error("Missing value for slot", slot.name))
  ELSE
    LET raw == call.params[slot.name]
        tr == IF Resolved.transform # "undefined"
                THEN ApplyTransform(Resolved.transform, slot, raw) ELSE Returns(raw)
    IN IF ~tr.ok \/ slot.filter = <<>> THEN tr
       ELSE IF GetProperty(Resolved.filters, slot.filter) = Undefined
         THEN Throws(Error("Unknown filter", slot.filter))
       ELSE ApplyFilter(GetProperty(Resolved.filters, slot.filter), tr.value, slot.args)

\* The slots that fail taken by themselves.
FailingSlots == {k \in 1..Len(slots) : ~SlotOutcome(k).ok}

FirstFailing == CHOOSE k \in FailingSlots : \A other \in FailingSlots : k <= other

\* C27: when slots of the template would fail, render raises the error of the
\* first of them in source order; within a slot the missing-key check comes
\* before the transform call, which comes before the filter's lookup and call;
\* after a slot failed, no hook or filter of a later slot is called.
C27_FirstFailingSlotRaises ==
  (IsCall("render", "template") /\ FailingSlots # {}) =>
    /\ ~call.ok
    /\ call.error = SlotOutcome(FirstFailing).error
    /\ \A i \in 1..Len(call.log) :
         /\ IsEvaluationCall(call.log[i])
         /\ call.log[i].slot <= FirstFailing
         /\ call.log[i].slot = FirstFailing =>
              /\ slots[FirstFailing].name \in DOMAIN call.params
              /\ call.log[i].fn = "filter" =>
                   (Resolved.transform # "undefined" =>
                      ApplyTransform(Resolved.transform, slots[FirstFailing],
                                     call.params[slots[FirstFailing].name]).ok)
    /\ \A i \in 1..Len(call.log) : \A j \in 1..Len(call.log) :
         i < j =>
           /\ call.log[i].slot <= call.log[j].slot
           /\ call.log[i].slot = call.log[j].slot =>
                (call.log[i].fn = "transform" /\ call.log[j].fn = "filter")

\* render raised the error of its first slot, a filter that throws, on a
\* template whose second slot would fail on its own, the hook throwing there.
C27_TwoSlotsWouldFail ==
  /\ IsCall("render", "template")
  /\ Cardinality(FailingSlots) = 2
  /\ SlotOutcome(1).error # SlotOutcome(2).error
  /\ call.error = SlotOutcome(1).error
  /\ \E i \in 1..Len(call.log) : call.log[i].fn = "filter"

(***************************************************************************)
(* The policy of a call on a bound wrapper                                 *)
(***************************************************************************)

\* The one policy a call on the wrapper goes by: the policy of the call when
\* the call has one, the default policy otherwise.
PolicyInEffect == IF call.policy.defined THEN call.policy ELSE bound.defaultPolicy

\* C28: a bound template goes by its default policy only when render or
\* toParts is called without a policy; a policy given with the call takes the
\* place of the default policy whole, nothing of the default policy's filters,
\* transform or asString being in effect for that call.
C28_CallPolicyReplacesDefault ==
  /\ IsCall("render", "bound") =>
       Let(render(chunks, slots, call.params @@ bound.bound, PolicyInEffect),
           LAMBDA r :
             /\ call.ok = r.ok
             /\ call.error = r.error
             /\ call.value = r.value
             /\ call.log = r.log)
  /\ IsCall("toParts", "bound") =>
       Let(toParts(chunks, slots, call.params @@ bound.bound, PolicyInEffect),
           LAMBDA r :
             /\ call.ok = r.ok
             /\ call.error = r.error
             /\ call.value.values = r.value.values
             /\ call.log = r.log)

\* A wrapper whose default policy registers its own upper rendered a slot
\* filtered by upper under a call policy that registers none: the built-in ran.
C28_DefaultUpperNotInEffect ==
  /\ IsCall("render", "bound")
  /\ call.ok
  /\ call.policy.defined /\ Chars("upper") \notin DOMAIN call.policy.filters
  /\ bound.defaultPolicy.defined /\ Chars("upper") \in DOMAIN bound.defaultPolicy.filters
  /\ \E i \in 1..Len(call.log) :
       /\ call.log[i].fn = "filter"
       /\ call.log[i].callee = builtinFilters[Chars("upper")]

(***************************************************************************)
(* bind on a wrapper that bind returned                                    *)
(***************************************************************************)

\* The render method of bind(base, b, defaultPolicy) for a base that is itself
\* a wrapper of bind. The wrapper is the object literal of source, chunks,
\* slots, the brand, render, toParts and toPartsRaw: it has no evaluate, so
\* base['evaluate'] is undefined and calling it raises a TypeError, once
\* resolvePolicy and mergedParams have run and before anything is evaluated.
boundRenderOnWrapper(b, defaultPolicy, params, policy) ==
  Let(resolvePolicy(Coalesce(policy, defaultPolicy)), LAMBDA rp :
    Let(mergedParams(b, params), LAMBDA merged :
      [ok |-> FALSE, error |-> Error("TypeError: base.evaluate is not a function", <<>>),
       value |-> <<>>, log |-> <<>>]))

\* bind(w, b, defaultPolicy) on the wrapper w at hand: the new wrapper holds
\* w's source, chunks and slots, and w as its base.
BindBound ==
  /\ call.op = "none" /\ call.wrote = "none"
  /\ bound.present
  /\ "base" \notin DOMAIN bound
  /\ \E b \in BoundRecords, defaultPolicy \in DefaultPolicies :
       /\ bound' = [bound |-> b, defaultPolicy |-> defaultPolicy, present |-> TRUE,
                    base |-> bound]
       /\ call' = Call("bind", "bound", b, defaultPolicy, bind(source, chunks, slots))
  /\ UNCHANGED <<source, chunks, slots, compiled, frozen>>

\* render on the wrapper of a wrapper.
NestedRender ==
  /\ call.op = "none" /\ call.wrote = "none"
  /\ bound.present
  /\ "base" \in DOMAIN bound
  /\ \E params \in Records, policy \in Policies :
       call' = Call("render", "nested", params, policy,
                    boundRenderOnWrapper(bound.bound, bound.defaultPolicy, params, policy))
  /\ UNCHANGED <<source, chunks, slots, compiled, frozen, bound>>

NestNext ==
  \/ Compile
  \/ Bind
  \/ BindBound
  \/ NestedRender
  \/ Return

NestSpec == Init /\ [][NestNext]_vars

\* The records B1, B2 and R of a call on bind(bind(t, B1), B2) share no key
\* and hold every slot key between them; no policy is given anywhere.
NestedDisjoint ==
  LET B1 == DOMAIN bound.base.bound
      B2 == DOMAIN bound.bound
      R == DOMAIN call.params
  IN /\ B1 \cap B2 = {} /\ B1 \cap R = {} /\ B2 \cap R = {}
     /\ \A k \in 1..Len(slots) : slots[k].name \in B1 \cup B2 \cup R
     /\ ~call.policy.defined
     /\ ~bound.defaultPolicy.defined /\ ~bound.base.defaultPolicy.defined

\* C29: binding composes. For records B1, B2 and R with pairwise disjoint keys
\* whose union holds every slot key, bind(bind(t, B1), B2).render(R) does not
\* raise and returns the string t.render(B1 \cup B2 \cup R) returns.
C29_BindingComposes ==
  (IsCall("render", "nested") /\ NestedDisjoint) =>
    Let(render(chunks, slots,
               UnionRecord(bound.base.bound, UnionRecord(bound.bound, call.params)),
               NoPolicy),
        LAMBDA r : r.ok => (call.ok /\ call.value = r.value))

(***************************************************************************)
(* A key that is bound and given again at render time                      *)
(***************************************************************************)

\* The value a call on the wrapper is to read for a key: the one the caller
\* gave with the call, else the bound one.
ValueFor(key) ==
  IF key \in DOMAIN call.params THEN call.params[key] ELSE bound.bound[key]

CallerFirst == [key \in DOMAIN call.params \cup DOMAIN bound.bound |-> ValueFor(key)]

\* The keys of the call's record that are bound too.
GivenAgain == DOMAIN call.params \cap DOMAIN bound.bound

\* A call on the wrapper reads the caller's value for a key given again.
UsesRenderTimeValue ==
  /\ IsCall("render", "bound") =>
       Let(render(chunks, slots, CallerFirst, PolicyInEffect), LAMBDA r :
         /\ call.ok = r.ok
         /\ call.ok => call.value = r.value
         /\ \A i \in 1..Len(call.log) :
              call.log[i].fn = "transform" =>
                call.log[i].input = ValueFor(slots[call.log[i].slot].name))
  /\ IsCall("toPartsRaw", "bound") =>
       \A k \in 1..Len(slots) :
         slots[k].name \in GivenAgain =>
           call.value.values[k] = call.params[slots[k].name]

\* C30: when a slot key is bound and also given at render time, the bound
\* template uses the render-time value for that call; the bound record is not
\* modified by the call, so a later render that leaves the key out uses the
\* bound value again.
C30_RenderTimeValueWinsBoundStays ==
  /\ []UsesRenderTimeValue
  /\ [][call'.on = "bound" => bound' = bound]_vars

\* The wrapper rendered a slot whose key is bound to one value and was given
\* another with the call.
C30_BoundKeyGivenAgain ==
  /\ IsCall("render", "bound")
  /\ call.ok
  /\ \E k \in 1..Len(slots) :
       /\ slots[k].name \in GivenAgain
       /\ call.params[slots[k].name] # bound.bound[slots[k].name]

====
